---------------------------- MODULE Spec2Model ----------------------------
(***************************************************************************)
(* Model of the LinkedIn-MCP session manager (src/linkedin_client.py):     *)
(* the process-wide singleton _client, get_client() with its cookie /      *)
(* password credential selection, the /me health probe and the stale       *)
(* cookie-file repair, and reset_client(); and of the tools built on it:   *)
(* the recipient resolver and handle_send_message (src/tools/messaging.py) *)
(* and the own-identity lookup (src/tools/profile.py).                     *)
(*                                                                         *)
(* get_client() is modelled per caller as a small control-flow graph whose *)
(* nodes are the blocking upstream calls (the session constructor and the  *)
(* /me probe); everything the code does between two such calls is part of  *)
(* the step that ends at the next one.  Spec runs callers one at a time    *)
(* (a single-threaded host); SpecConc lets their steps interleave.         *)
(* The tool specifications (SpecResolve, SpecSend, SpecProfile,             *)
(* SpecConnections, SpecHandlers) run one tool operation against a process *)
(* whose session is already cached (or whose credentials are missing), one *)
(* upstream call per step; SpecServer starts the server of src/main.py and *)
(* serves tool calls; SpecClassify applies the two /me classifiers to one  *)
(* answer.  SpecRepl is the CodeExec-MCP REPL wrapper                      *)
(* (src/sessions/wrappers/python-repl.py), one code block at a time.       *)
(***************************************************************************)
EXTENDS Naturals, Sequences, FiniteSets

\* ---- bounds of the model ------------------------------------------------
\* number of callers (threads of the host) that may call get_client()
NumCallers == 2
\* number of get_client() calls made in one behaviour
MaxCalls == 3

Callers == 1..NumCallers

VARIABLES
    env,         \* os.environ: which of the four credential variables are non-empty after strip()
    cookieFile,  \* whether ~/.linkedin_api/cookies/<email>.jr exists
    _client,     \* the module-level singleton
    pc,          \* per caller: where its get_client() call stands
    client,      \* per caller: the local variable `client` of get_client()
    result,      \* per caller: how its last get_client() call ended
    log,         \* per caller: what its current/last call did (history)
    returned,    \* sessions returned by get_client() since the last reset_client() (history)
    nextId,      \* identity of the next session object constructed
    calls,       \* get_client() calls started so far
    run,         \* the tool operation in progress: its arguments, its upstream calls, its result
    mcp,         \* the LinkedIn MCP server process (src/main.py): "starting" or "running"
    repl         \* the CodeExec Python REPL wrapper process (python-repl.py)

vars == <<env, cookieFile, _client, pc, client, result, log, returned, nextId, calls, run, mcp, repl>>

\* the variables of the session manager
session == <<env, cookieFile, _client, pc, client, result, log, returned, nextId, calls>>

\* ---- values -------------------------------------------------------------
\* _client: Linkedin | None = None
None == [id |-> 0, source |-> "none"]

Session(i, src) == [id |-> i, source |-> src]

Envs == [li_at : BOOLEAN, jsessionid : BOOLEAN, email : BOOLEAN, password : BOOLEAN]

\* what client.get_user_profile() can do: raise, return something that is
\* not a dict, or return a dict carrying some of the keys the classifiers
\* look at
MeKeys == {"status", "miniProfile", "publicIdentifier"}

MeResponses ==
    {[kind |-> "raise", keys |-> {}], [kind |-> "other", keys |-> {}]} \cup
    {[kind |-> "dict", keys |-> k] : k \in SUBSET MeKeys}

\* what the Linkedin(email, password) constructor can do
LoginOutcomes == {"ok", "raise"}

NoResult == [kind |-> "none", s |-> None, err |-> "", cached |-> FALSE]
Returned(s, c) == [kind |-> "session", s |-> s, err |-> "", cached |-> c]
Raised(e) == [kind |-> "error", s |-> None, err |-> e, cached |-> FALSE]

\* history of one call: the sessions earlier calls had returned when it was
\* entered, the sessions it constructed, its password constructor calls, its
\* probes (with what cookie_file.exists() was at that moment) and its unlinks
NewLog(seen) == [seen |-> seen, builds |-> <<>>, logins |-> 0, probes |-> <<>>, dels |-> 0]

Probe(src, valid, file) == [src |-> src, valid |-> valid, file |-> file]

\* ---- the decisions of get_client() --------------------------------------
\* def _is_session_valid(client)
_is_session_valid(me) ==
    IF me.kind = "raise"
    THEN FALSE
    ELSE ~(me.kind = "dict" /\ "status" \in me.keys /\ "miniProfile" \notin me.keys)

\* (variant: the cached singleton is never consulted)
CacheHit_Never(c) == FALSE

\* if _client is not None: return _client
CacheHit(c) == c # None

\* if li_at and jsessionid:
UseCookies(e) == e.li_at /\ e.jsessionid

\* (variant: only the e-mail is required for the password flow)
CredentialCheck_EmailOnly(e) ==
    IF ~e.email
    THEN IF e.li_at THEN "raise_cookies_expired" ELSE "raise_unconfigured"
    ELSE "pw_login"

\* if not email or not password: raise RuntimeError(...)  else: password flow
CredentialCheck(e) ==
    IF ~e.email \/ ~e.password
    THEN IF e.li_at THEN "raise_cookies_expired" ELSE "raise_unconfigured"
    ELSE "pw_login"

\* (variant: the cookie session is cached whatever its probe said)
AfterCookieProbe_AlwaysCommit(valid, e) == "commit"

\* (variant: a valid cookie session is not returned, the password flow runs anyway)
AfterCookieProbe_Fallthrough(valid, e) == CredentialCheck(e)

\* (variant: an invalid cookie session raises even when a password is configured)
AfterCookieProbe_Raise(valid, e) ==
    IF valid THEN "commit" ELSE "raise_cookies_expired"

\* (variant: the fall-through skips the credential check)
AfterCookieProbe_NoCheck(valid, e) ==
    IF valid THEN "commit" ELSE "pw_login"

\* if _is_session_valid(client): _client = client; return   else: fall through
AfterCookieProbe(valid, e) ==
    IF valid THEN "commit" ELSE CredentialCheck(e)

\* (variant: an invalid session with no cookie file to delete raises)
AfterFirstProbe_RaiseInvalid(valid, fileExists) ==
    IF valid THEN "commit"
    ELSE IF fileExists THEN "repair" ELSE "raise_session_invalid"

\* (variant: the stale-cookie repair is missing)
AfterFirstProbe_NoRepair(valid, fileExists) == "commit"

\* (variant: the cookie file is deleted without looking at the probe)
AfterFirstProbe_AlwaysRepair(valid, fileExists) ==
    IF fileExists THEN "repair" ELSE "commit"

\* if not _is_session_valid(client): if cookie_file.exists(): unlink, re-login
AfterFirstProbe(valid, fileExists) ==
    IF valid THEN "commit"
    ELSE IF fileExists THEN "repair" ELSE "commit"

\* (variant: a second invalid probe raises)
AfterSecondProbe_RaiseInvalid(valid) ==
    IF valid THEN "commit" ELSE "raise_session_invalid"

\* if not _is_session_valid(client): logger.error(...)  (either way: fall to _client = client)
AfterSecondProbe(valid) == "commit"

\* ---- steps --------------------------------------------------------------
Idle(t) == pc[t] = "idle"
InFlight(t) == pc[t] # "idle"

\* (variant: the client built so far is cached before the call raises)
Raise_CachesClient(t, e, lg) ==
    /\ pc' = [pc EXCEPT ![t] = "idle"]
    /\ client' = [client EXCEPT ![t] = None]
    /\ result' = [result EXCEPT ![t] = Raised(e)]
    /\ log' = [log EXCEPT ![t] = lg]
    /\ _client' = client[t]
    /\ UNCHANGED returned

\* the call ends by raising: nothing is assigned to _client
Raise(t, e, lg) ==
    /\ pc' = [pc EXCEPT ![t] = "idle"]
    /\ client' = [client EXCEPT ![t] = None]
    /\ result' = [result EXCEPT ![t] = Raised(e)]
    /\ log' = [log EXCEPT ![t] = lg]
    /\ UNCHANGED <<_client, returned>>

\* _client = client; return _client
Commit(t, s, lg) ==
    /\ _client' = s
    /\ pc' = [pc EXCEPT ![t] = "idle"]
    /\ client' = [client EXCEPT ![t] = None]
    /\ result' = [result EXCEPT ![t] = Returned(s, _client' = s)]
    /\ log' = [log EXCEPT ![t] = lg]
    /\ returned' = returned \cup {s}

\* continue the call at node `at` with local client s
Goto(t, at, s, lg) ==
    /\ pc' = [pc EXCEPT ![t] = at]
    /\ client' = [client EXCEPT ![t] = s]
    /\ log' = [log EXCEPT ![t] = lg]
    /\ UNCHANGED <<_client, result, returned>>

\* the part of get_client() after the cookie branch: credential check
Dispatch(t, what, s, lg) ==
    CASE what = "commit" -> Commit(t, s, lg)
      [] what = "pw_login" -> Goto(t, "pw_login", s, lg)
      [] what = "raise_cookies_expired" -> Raise(t, "cookies_expired_no_fallback", lg)
      [] what = "raise_unconfigured" -> Raise(t, "credentials_not_set", lg)
      [] OTHER -> Raise(t, what, lg)

\* get_client(), from entry to the first upstream call (or to its return)
Enter(t) ==
    /\ Idle(t)
    /\ calls < MaxCalls
    /\ calls' = calls + 1
    /\ UNCHANGED <<env, cookieFile, run, mcp, repl>>
    /\ LET lg == NewLog(returned) IN
       IF CacheHit(_client)
       THEN /\ pc' = pc
            /\ client' = client
            /\ result' = [result EXCEPT ![t] = Returned(_client, TRUE)]
            /\ log' = [log EXCEPT ![t] = lg]
            /\ returned' = returned \cup {_client}
            /\ UNCHANGED <<_client, nextId>>
       ELSE IF UseCookies(env)
       THEN \* client = _create_client_with_cookies(li_at, jsessionid): no upstream call
            /\ nextId' = nextId + 1
            /\ Goto(t, "cookie_probe", Session(nextId, "cookie"),
                    [lg EXCEPT !.builds = Append(@, Session(nextId, "cookie"))])
       ELSE /\ nextId' = nextId
            /\ Dispatch(t, CredentialCheck(env), None, lg)

\* _is_session_valid(client) on the cookie-built client, and what follows
CookieProbe(t) ==
    /\ pc[t] = "cookie_probe"
    /\ UNCHANGED <<env, cookieFile, nextId, calls, run, mcp, repl>>
    /\ \E me \in MeResponses :
         LET valid == _is_session_valid(me)
             lg == [log[t] EXCEPT !.probes = Append(@, Probe("cookie", valid, cookieFile))]
         IN Dispatch(t, AfterCookieProbe(valid, env), client[t], lg)

\* client = Linkedin(email, password): may raise; on success the library may
\* have written the cookie file
Login(t, next) ==
    /\ UNCHANGED <<env, calls, run, mcp, repl>>
    /\ \E o \in LoginOutcomes :
         LET lg == [log[t] EXCEPT !.logins = @ + 1] IN
         IF o = "raise"
         THEN /\ Raise(t, "login_raised", lg)
              /\ UNCHANGED <<cookieFile, nextId>>
         ELSE /\ \E wrote \in BOOLEAN : cookieFile' = (cookieFile \/ wrote)
              /\ nextId' = nextId + 1
              /\ Goto(t, next, Session(nextId, "password"),
                      [lg EXCEPT !.builds = Append(@, Session(nextId, "password"))])

\* client = Linkedin(email, password), first time
PasswordLogin(t) ==
    /\ pc[t] = "pw_login"
    /\ Login(t, "pw_probe1")

\* first validation of the password-built client; deletes the stale cookie file
FirstProbe(t) ==
    /\ pc[t] = "pw_probe1"
    /\ UNCHANGED <<env, nextId, calls, run, mcp, repl>>
    /\ \E me \in MeResponses :
         LET valid == _is_session_valid(me)
             lg == [log[t] EXCEPT !.probes = Append(@, Probe("password", valid, cookieFile))]
             what == AfterFirstProbe(valid, cookieFile)
         IN IF what = "repair"
            THEN \* cookie_file.unlink()
                 /\ cookieFile' = FALSE
                 /\ Goto(t, "pw_relogin", client[t], [lg EXCEPT !.dels = @ + 1])
            ELSE /\ cookieFile' = cookieFile
                 /\ Dispatch(t, what, client[t], lg)

\* client = Linkedin(email, password) after the unlink
Relogin(t) ==
    /\ pc[t] = "pw_relogin"
    /\ Login(t, "pw_probe2")

\* validation of the re-built client
SecondProbe(t) ==
    /\ pc[t] = "pw_probe2"
    /\ UNCHANGED <<env, cookieFile, nextId, calls, run, mcp, repl>>
    /\ \E me \in MeResponses :
         LET valid == _is_session_valid(me)
             lg == [log[t] EXCEPT !.probes = Append(@, Probe("password", valid, cookieFile))]
         IN Dispatch(t, AfterSecondProbe(valid), client[t], lg)

\* def reset_client(): _client = None
reset_client ==
    /\ _client # None
    /\ _client' = None
    /\ returned' = {}
    /\ UNCHANGED <<env, cookieFile, pc, client, result, log, nextId, calls, run, mcp, repl>>

\* the wrapper before it has read anything: nothing read, nothing written,
\* its global names intact
NoRepl ==
    [pc |-> "read", eof |-> FALSE, kind |-> "none", boundary |-> <<>>, reads |-> <<>>,
     stdout |-> <<>>, execs |-> <<>>, print_ok |-> TRUE, raised |-> "none"]

\* no conversation list is held
NoScan == [kind |-> "none", parts |-> <<>>]

\* no tool operation has been started
NoRun ==
    [op |-> "none", pc |-> "idle", body |-> <<>>, conv |-> <<>>, recipients |-> <<>>,
     override |-> <<>>, idx |-> 0, calls |-> <<>>, scan |-> NoScan, outs |-> <<>>,
     resp |-> [success |-> FALSE, code |-> "", msg |-> ""]]

\* ---- specifications -----------------------------------------------------
Init ==
    /\ env \in Envs
    /\ cookieFile \in BOOLEAN
    /\ _client = None
    /\ pc = [t \in Callers |-> "idle"]
    /\ client = [t \in Callers |-> None]
    /\ result = [t \in Callers |-> NoResult]
    /\ log = [t \in Callers |-> NewLog({})]
    /\ returned = {}
    /\ nextId = 1
    /\ calls = 0
    /\ run = NoRun
    /\ mcp = "running"
    /\ repl = NoRepl

Step(t) ==
    \/ CookieProbe(t)
    \/ PasswordLogin(t)
    \/ FirstProbe(t)
    \/ Relogin(t)
    \/ SecondProbe(t)

\* a single-threaded host: a call runs to its end before the next one starts
Quiescent == \A u \in Callers : Idle(u)

SerialEnter(t) ==
    /\ Quiescent
    /\ Enter(t)

SerialReset ==
    /\ Quiescent
    /\ reset_client

Next ==
    \/ \E t \in Callers : SerialEnter(t)
    \/ \E t \in Callers : Step(t)
    \/ SerialReset

Spec == Init /\ [][Next]_vars

\* a multi-threaded host: calls start at any time and their steps interleave
NextConc ==
    \/ \E t \in Callers : Enter(t)
    \/ \E t \in Callers : Step(t)
    \/ reset_client

SpecConc == Init /\ [][NextConc]_vars

\* ===========================================================================
\* The tools: src/tools/messaging.py and src/tools/profile.py
\* ===========================================================================

\* ---- bounds -------------------------------------------------------------
\* longest recipient reference
MaxRefLen == 5
\* most participants in the conversations returned by get_conversations()
MaxParticipants == 2
\* most recipients of one handle_send_message call
MaxRecipients == 2

\* ---- strings: sequences of characters -----------------------------------
\* a lower-case letter, an upper-case letter, the blank and the comma
Chars == {"a", "A", " ", ","}

Strings(n) == UNION {[1..k -> Chars] : k \in 0..n}

\* c in s
Has(s, c) == \E i \in DOMAIN s : s[i] = c

\* str.lower()
Lower(s) == [i \in DOMAIN s |-> IF s[i] = "A" THEN "a" ELSE s[i]]

RECURSIVE LStrip(_)
LStrip(s) == IF s # <<>> /\ Head(s) = " " THEN LStrip(Tail(s)) ELSE s

RECURSIVE RStrip(_)
RStrip(s) == IF s # <<>> /\ s[Len(s)] = " " THEN RStrip(SubSeq(s, 1, Len(s) - 1)) ELSE s

\* str.strip()
Strip(s) == RStrip(LStrip(s))

\* length of the leading run of non-blank characters
RECURSIVE TokenLen(_)
TokenLen(s) == IF s = <<>> \/ Head(s) = " " THEN 0 ELSE 1 + TokenLen(Tail(s))

\* str.split(): the tokens between runs of whitespace
RECURSIVE Split(_)
Split(s) ==
    LET t == LStrip(s) IN
    IF t = <<>> THEN <<>>
    ELSE <<SubSeq(t, 1, TokenLen(t))>> \o Split(SubSeq(t, TokenLen(t) + 1, Len(t)))

\* " ".join(tokens)
RECURSIVE Join(_)
Join(ts) ==
    IF ts = <<>> THEN <<>>
    ELSE IF Len(ts) = 1 THEN ts[1]
    ELSE ts[1] \o <<" ">> \o Join(Tail(ts))

\* ---- what the upstream API can answer -----------------------------------
\* a search hit; an absent or empty urn_id is the empty string
Candidate(id) == [urn_id |-> id]

\* search_people(...): raises, or returns a ranked list: empty, a top hit
\* with an id, or a top hit without id above a hit that has one
SearchResponses ==
    {[kind |-> "raise", items |-> <<>>]} \cup
    {[kind |-> "list", items |-> r] :
        r \in {<<>>, <<Candidate(<<"u1">>)>>, <<Candidate(<<>>), Candidate(<<"u2">>)>>}}

\* a conversation participant's miniProfile; entityUrn as its colon-separated segments
Participant(first, last, urn) == [firstName |-> first, lastName |-> last, entityUrn |-> urn]

\* "A a" with the urn "urn:p1", and "A a" with a urn that has no colon
Participants ==
    {Participant(<<"A">>, <<"a">>, <<<<"urn">>, <<"p1">>>>),
     Participant(<<"A">>, <<"a">>, <<<<"p9">>>>)}

PartLists == UNION {[1..k -> Participants] : k \in 0..MaxParticipants}

\* get_conversations(): raises, or returns a dict with "elements", a list,
\* or something else; the participants in the order the scan walks them
ConvResponses ==
    {[kind |-> "raise", parts |-> <<>>], [kind |-> "other", parts |-> <<>>]} \cup
    {[kind |-> k, parts |-> p] : k \in {"dict", "list"}, p \in PartLists}

\* send_message(...): returns False (sent), returns True (rejected), or raises
SendOutcomes == {"false", "true", "raise"}

\* an argument that is not passed
Absent == <<"(absent)">>

\* one upstream call made for recipient number `who`, and its answer;
\* `recipients` is the recipients argument of send_message (the empty list
\* stands for None, and for the other calls)
Call(who, op, kw, first, last, broad, resp) ==
    [who |-> who, op |-> op, keywords |-> kw, first |-> first, last |-> last,
     broad |-> broad, recipients |-> <<>>, resp |-> resp]

\* what _resolve_recipient gives back: an id, None, or an exception
Found(id) == [kind |-> "id", id |-> id]
NotFound == [kind |-> "none", id |-> <<>>]
Failed == [kind |-> "raise", id |-> <<>>]

\* ---- the decisions of the resolver --------------------------------------
\* (variant: an id must also start with an upper-case letter)
_looks_like_urn_id_Upper(value) ==
    value # <<>> /\ value[1] = "A" /\ ~Has(value, " ") /\ ~Has(value, ",")

\* def _looks_like_urn_id(value)
_looks_like_urn_id(value) ==
    value # <<>> /\ ~Has(value, " ") /\ ~Has(value, ",")

\* (variant: the first candidate that carries an id is taken)
TopUrnId_AnyWithId(results) ==
    LET withId == SelectSeq(results, LAMBDA c : c.urn_id # <<>>) IN
    IF withId = <<>> THEN <<>> ELSE withId[1].urn_id

\* if results: urn_id = results[0].get("urn_id")
TopUrnId(results) ==
    IF results = <<>> THEN <<>> ELSE results[1].urn_id

\* (variant: a keyword hit is not trusted, the later strategies still run)
SearchDecision_DistrustKeyword(k, id) ==
    IF id # <<>> /\ k # 1 THEN "return" ELSE "next"

\* if urn_id: return urn_id
SearchDecision(k, id) ==
    IF id # <<>> THEN "return" ELSE "next"

\* (variant: the last name is the second token only)
NameParts_SecondToken(recipient) ==
    LET parts == Split(Strip(recipient)) IN
    IF Len(parts) >= 2
    THEN [split |-> TRUE, first |-> parts[1], last |-> parts[2]]
    ELSE [split |-> FALSE, first |-> <<>>, last |-> <<>>]

\* parts = recipient.strip().split(); first_name = parts[0]; last_name = " ".join(parts[1:])
NameParts(recipient) ==
    LET parts == Split(Strip(recipient)) IN
    IF Len(parts) >= 2
    THEN [split |-> TRUE, first |-> parts[1], last |-> Join(Tail(parts))]
    ELSE [split |-> FALSE, first |-> <<>>, last |-> <<>>]

\* (variant: the name search follows the keyword search for every reference)
NextStrategy_AlwaysName(k, recipient) ==
    CASE k = 1 -> "s2"
      [] k = 2 -> "s3"
      [] OTHER -> "s4"

\* (variant: the broad search is left out)
NextStrategy_NoBroad(k, recipient) ==
    IF k = 1 /\ NameParts(recipient).split THEN "s2" ELSE "s4"

\* the strategy that follows strategy k when it gave no id
NextStrategy(k, recipient) ==
    CASE k = 1 -> IF NameParts(recipient).split THEN "s2" ELSE "s3"
      [] k = 2 -> "s3"
      [] OTHER -> "s4"

\* urn.split(":")[-1]
LastSegment(urn) == urn[Len(urn)]

\* full_name = f"{first} {last}".strip().lower()
FullName(p) == Lower(Strip(p.firstName \o <<" ">> \o p.lastName))

\* def _resolve_via_conversations(api, name), given what get_conversations() did;
\* the empty string stands for None
_resolve_via_conversations(raw, name) ==
    IF raw.kind = "raise" THEN <<>>
    ELSE LET conv_list == IF raw.kind \in {"dict", "list"} THEN raw.parts ELSE <<>>
             hits == {i \in DOMAIN conv_list :
                        /\ Lower(name) = FullName(conv_list[i])
                        /\ conv_list[i].entityUrn # <<>>
                        /\ Len(conv_list[i].entityUrn) >= 2}
         IN IF hits = {} THEN <<>>
            ELSE LastSegment(conv_list[CHOOSE i \in hits : \A j \in hits : i <= j].entityUrn)

\* ---- the decisions of handle_send_message -------------------------------
\* (variant: the body is tested without strip())
Validate_NoStrip(body, conv, recipients) ==
    IF body = <<>> THEN "empty_body"
    ELSE IF conv = <<>> /\ recipients = <<>> THEN "no_target"
    ELSE "ok"

\* if not message_body.strip(): ...  if not conversation_urn_id and not recipients: ...
Validate(body, conv, recipients) ==
    IF Strip(body) = <<>> THEN "empty_body"
    ELSE IF conv = <<>> /\ recipients = <<>> THEN "no_target"
    ELSE "ok"

\* linkedin_client.get_client() as the handlers see it: the cached session,
\* or the configuration error
GetClientOutcome ==
    IF CacheHit(_client) THEN "ok"
    ELSE IF ~UseCookies(env) /\ CredentialCheck(env) # "pw_login" THEN "raise"
    ELSE "build"

\* (variant: an unresolved recipient is dropped and the message still goes out)
RecipientDecision_Skip(out) ==
    IF out.kind = "raise" THEN "error" ELSE "ok"

\* urn_id = _resolve_recipient(api, r); if not urn_id: return error_response(...)
RecipientDecision(out) ==
    IF out.kind = "raise" THEN "error"
    ELSE IF out.kind = "none" \/ out.id = <<>> THEN "not_found"
    ELSE "ok"

\* error_response(error, error_code); msg names what the text is made of
ErrorResponse(msg, code) == [success |-> FALSE, code |-> code, msg |-> msg]
SuccessResponse == [success |-> TRUE, code |-> "", msg |-> ""]

\* (variant: the handler has no except clause and the exception leaves it)
ExceptResponse_Uncaught == [success |-> FALSE, code |-> "(uncaught)", msg |-> "exception_text"]

\* except Exception as e: return error_response(str(e), "LINKEDIN_ERROR")
ExceptResponse == ErrorResponse("exception_text", "LINKEDIN_ERROR")

\* ---- the steps of the resolver and of handle_send_message ---------------
\* (variant: the return value of send_message is read as "sent")
SendResult_TruthyIsSent(o) ==
    CASE o = "raise" -> ExceptResponse
      [] o = "true" -> SuccessResponse
      [] OTHER -> ErrorResponse("fixed_text", "LINKEDIN_SEND_FAILED")

\* send_error = api.send_message(...); if send_error: error_response(...)
\* else success_response(...); except Exception: error_response(str(e), ...)
SendResult(o) ==
    CASE o = "raise" -> ExceptResponse
      [] o = "true" -> ErrorResponse("fixed_text", "LINKEDIN_SEND_FAILED")
      [] OTHER -> SuccessResponse

\* (variant: the references are passed on as they were given)
ResolvedRecipients_Raw(r) == r.recipients

\* resolved_recipients: None without recipients, else the ids appended so far
ResolvedRecipients(r) ==
    IF r.recipients = <<>> THEN <<>> ELSE [i \in 1..Len(r.outs) |-> r.outs[i].id]

\* the reference being resolved
Ref(r) == r.recipients[r.idx]

RECURSIVE StartResolution(_, _)
RECURSIVE AfterResolution(_, _)

\* `for r in recipients: urn_id = _resolve_recipient(api, r)` from recipient
\* number i on, up to the next upstream call
StartResolution(r, i) ==
    IF i > Len(r.recipients) THEN [r EXCEPT !.pc = "send"]
    ELSE IF _looks_like_urn_id(r.recipients[i])
    THEN AfterResolution([r EXCEPT !.idx = i], Found(r.recipients[i]))
    ELSE [r EXCEPT !.idx = i, !.pc = "s1"]

\* _resolve_recipient has given `out` for the current recipient; the payload
\* of its conversation scan is kept only when the resolver was called on its own
AfterResolution(r, out) ==
    LET r1 == [r EXCEPT !.outs = Append(@, out),
                        !.scan = IF r.op = "resolve" THEN @ ELSE NoScan] IN
    IF r.op = "resolve" THEN [r1 EXCEPT !.pc = "done"]
    ELSE CASE RecipientDecision(out) = "error" ->
                [r1 EXCEPT !.pc = "done",
                           !.resp = ExceptResponse]
           [] RecipientDecision(out) = "not_found" ->
                [r1 EXCEPT !.pc = "done",
                           !.resp = ErrorResponse("recipient_text", "RECIPIENT_NOT_FOUND")]
           [] OTHER -> StartResolution(r1, r.idx + 1)

\* the arguments of the search call of strategy k
SearchCall(k, who, recipient, resp) ==
    CASE k = 1 -> Call(who, "search_people", recipient, Absent, Absent, FALSE, resp)
      [] k = 2 -> Call(who, "search_people", Absent,
                       NameParts(recipient).first, NameParts(recipient).last, TRUE, resp)
      [] OTHER -> Call(who, "search_people", recipient, Absent, Absent, TRUE, resp)

\* the run after the search call of strategy k was answered by resp
AfterSearch(k, resp) ==
    LET r1 == [run EXCEPT !.calls = Append(@, SearchCall(k, run.idx, Ref(run), resp))]
        id == TopUrnId(resp.items)
    IN IF resp.kind = "raise" THEN AfterResolution(r1, Failed)
       ELSE IF SearchDecision(k, id) = "return" THEN AfterResolution(r1, Found(id))
       ELSE [r1 EXCEPT !.pc = NextStrategy(k, Ref(run))]

\* Strategy 1: keyword search
KeywordSearch ==
    /\ run.pc = "s1"
    /\ \E resp \in SearchResponses : run' = AfterSearch(1, resp)
    /\ UNCHANGED <<session, mcp, repl>>

\* Strategy 2: first/last name search
NameSearch ==
    /\ run.pc = "s2"
    /\ \E resp \in SearchResponses : run' = AfterSearch(2, resp)
    /\ UNCHANGED <<session, mcp, repl>>

\* Strategy 3: broad keyword search
BroadSearch ==
    /\ run.pc = "s3"
    /\ \E resp \in SearchResponses : run' = AfterSearch(3, resp)
    /\ UNCHANGED <<session, mcp, repl>>

\* what the scan walks: the participants of raw["elements"] or of raw
ConvList(raw) ==
    [kind |-> IF raw.kind = "raise" THEN "raise" ELSE "elements",
     parts |-> IF raw.kind \in {"dict", "list"} THEN raw.parts ELSE <<>>]

\* Strategy 4: conv_urn = _resolve_via_conversations(api, recipient)
ConversationScan ==
    /\ run.pc = "s4"
    /\ \E raw \in ConvResponses :
         LET r1 == [run EXCEPT !.calls = Append(@,
                        Call(run.idx, "get_conversations", Absent, Absent, Absent, FALSE,
                             [kind |-> ConvList(raw).kind, items |-> <<>>])),
                               !.scan = ConvList(raw)]
             id == _resolve_via_conversations(raw, Ref(run))
         IN run' = AfterResolution(r1, IF id # <<>> THEN Found(id) ELSE NotFound)
    /\ UNCHANGED <<session, mcp, repl>>

\* _resolve_recipient(api, recipient) called on its own
CallResolveRecipient ==
    /\ run = NoRun
    /\ \E recipient \in Strings(MaxRefLen) :
         run' = StartResolution([NoRun EXCEPT !.op = "resolve", !.recipients = <<recipient>>], 1)
    /\ UNCHANGED <<session, mcp, repl>>

\* the arguments handle_send_message is called with
Bodies == {<<>>, <<" ">>, <<"a">>}
ConvIds == {<<>>, <<"c1">>}
HandlerRefs == {<<>>, <<"A">>, <<"a", " ", "A">>, <<"a", ",">>}
RecipientLists == UNION {[1..k -> HandlerRefs] : k \in 0..MaxRecipients}

\* handle_send_message(message_body, conversation_urn_id, recipients), up to
\* its first upstream call
CallSendMessage ==
    /\ run = NoRun
    /\ GetClientOutcome # "build"
    /\ \E body \in Bodies, conv \in ConvIds, recipients \in RecipientLists :
         LET r0 == [NoRun EXCEPT !.op = "send", !.body = body, !.conv = conv,
                                 !.recipients = recipients]
         IN run' = IF Validate(body, conv, recipients) # "ok"
                   THEN [r0 EXCEPT !.pc = "done",
                                   !.resp = ErrorResponse("fixed_text", "VALIDATION_ERROR")]
                   ELSE IF GetClientOutcome = "raise"
                   THEN [r0 EXCEPT !.pc = "done",
                                   !.resp = ExceptResponse]
                   ELSE StartResolution(r0, 1)
    /\ UNCHANGED <<session, mcp, repl>>

\* send_error = api.send_message(...), and the response built from it
SendMessage ==
    /\ run.pc = "send"
    /\ \E o \in SendOutcomes :
         LET r1 == [run EXCEPT !.calls = Append(@,
                        [Call(0, "send_message", Absent, Absent, Absent, FALSE,
                              [kind |-> o, items |-> <<>>])
                            EXCEPT !.recipients = ResolvedRecipients(run)]),
                               !.pc = "done"]
         IN run' = [r1 EXCEPT !.resp = SendResult(o)]
    /\ UNCHANGED <<session, mcp, repl>>

\* ---- the tools' specifications -------------------------------------------
\* the session manager at rest, as the tools find it
AtRest ==
    /\ cookieFile = FALSE
    /\ pc = [t \in Callers |-> "idle"]
    /\ client = [t \in Callers |-> None]
    /\ result = [t \in Callers |-> NoResult]
    /\ log = [t \in Callers |-> NewLog({})]
    /\ calls = 0
    /\ run = NoRun
    /\ mcp = "running"
    /\ repl = NoRepl

\* a process whose session is cached already
InitCached ==
    /\ env = [li_at |-> FALSE, jsessionid |-> FALSE, email |-> TRUE, password |-> TRUE]
    /\ _client = Session(1, "password")
    /\ returned = {Session(1, "password")}
    /\ nextId = 2
    /\ AtRest

\* a process with no credentials and no session
InitUnconfigured ==
    /\ env = [li_at |-> FALSE, jsessionid |-> FALSE, email |-> FALSE, password |-> FALSE]
    /\ _client = None
    /\ returned = {}
    /\ nextId = 1
    /\ AtRest

\* the tool dispatcher's process: with a session, or without credentials
InitTools == InitCached \/ InitUnconfigured

\* _resolve_recipient called with the session's api
NextResolve ==
    \/ CallResolveRecipient
    \/ KeywordSearch
    \/ NameSearch
    \/ BroadSearch
    \/ ConversationScan

SpecResolve == InitCached /\ [][NextResolve]_vars

\* handle_send_message called by the tool dispatcher
NextSend ==
    \/ CallSendMessage
    \/ KeywordSearch
    \/ NameSearch
    \/ BroadSearch
    \/ ConversationScan
    \/ SendMessage

SpecSend == InitTools /\ [][NextSend]_vars

\* ---- the own-identity extractor: src/tools/profile.py --------------------
\* the environment variable LINKEDIN_PUBLIC_ID: unset, empty, or a handle
Overrides == {Absent, <<>>, <<"h0">>}

\* a /me response: `status` tells whether that key is present; miniProfile is
\* missing, not a dict, or a dict; publicIdentifier is missing, empty or a
\* handle; the other fields are empty (or missing) or hold a value; urns are
\* given as their colon-separated segments
Me(status, mini, pub, vanity, public_id, entityUrn, objectUrn, plainId) ==
    [kind |-> "dict", status |-> status, miniProfile |-> mini, publicIdentifier |-> pub,
     vanityName |-> vanity, public_id |-> public_id, entityUrn |-> entityUrn,
     objectUrn |-> objectUrn, plainId |-> plainId]

Mini(present, pub, urn) == [present |-> present, publicIdentifier |-> pub, entityUrn |-> urn]

\* get_user_profile() raised, or gave something that is not a dict
MeRaise ==
    [kind |-> "raise", status |-> FALSE, miniProfile |-> Mini("nokey", <<>>, <<>>),
     publicIdentifier |-> Absent, vanityName |-> <<>>, public_id |-> <<>>,
     entityUrn |-> <<>>, objectUrn |-> <<>>, plainId |-> 0]

\* what a step that is no upstream call is logged with
NoAnswer == [MeRaise EXCEPT !.kind = "none"]

\* the answers that differ in what _get_own_public_id reads
MePublicResponses ==
    {MeRaise} \cup
    {Me(st, mini, pub, v, p, <<>>, <<>>, 0) :
        st \in BOOLEAN,
        mini \in {Mini("nokey", <<>>, <<>>), Mini("nondict", <<>>, <<>>),
                  Mini("dict", <<>>, <<>>), Mini("dict", <<"hm">>, <<>>)},
        pub \in {Absent, <<>>, <<"hp">>},
        v \in {<<>>, <<"hv">>},
        p \in {<<>>, <<"hi">>}}

\* the answers that differ in what _get_own_urn_id reads
MeUrnResponses ==
    {MeRaise} \cup
    {Me(st, mini, pub, <<>>, <<>>, e, o, n) :
        st \in BOOLEAN,
        mini \in {Mini("nokey", <<>>, <<>>), Mini("nondict", <<>>, <<>>),
                  Mini("dict", <<>>, <<>>), Mini("dict", <<>>, <<<<"m0">>>>),
                  Mini("dict", <<>>, <<<<"urn">>, <<"m1">>>>)},
        pub \in {Absent, <<"hp">>},
        e \in {<<>>, <<<<"e0">>>>, <<<<"urn">>, <<"e1">>>>},
        o \in {<<>>, <<<<"urn">>, <<"o1">>>>},
        n \in {0, 42}}

\* get_profile(public_id): raises, or a profile with or without profile_id
\* and member_urn
ProfileResponses ==
    {[kind |-> "raise", profile_id |-> <<>>, member_urn |-> <<>>]} \cup
    {[kind |-> "dict", profile_id |-> i, member_urn |-> m] :
        i \in {<<>>, <<"i1">>},
        m \in {<<>>, <<<<"m9">>>>, <<<<"urn">>, <<"m2">>>>}}

\* one upstream call of the extractor, or the eviction of the cached answer
ProfileCall(op, use_cache, public_id, resp) ==
    [op |-> op, use_cache |-> use_cache, public_id |-> public_id, resp |-> resp]

\* def _is_me_error(me)
_is_me_error(me) ==
    me.status /\ me.miniProfile.present = "nokey" /\ me.publicIdentifier = Absent

\* (variant: the top-level publicIdentifier is looked at before miniProfile)
_extract_own_public_id_FlatFirst(me) ==
    IF me.publicIdentifier # Absent /\ me.publicIdentifier # <<>> THEN me.publicIdentifier
    ELSE IF me.miniProfile.present = "dict" /\ me.miniProfile.publicIdentifier # <<>>
    THEN me.miniProfile.publicIdentifier
    ELSE IF me.vanityName # <<>> THEN me.vanityName
    ELSE IF me.public_id # <<>> THEN me.public_id
    ELSE <<>>

\* def _extract_own_public_id(me); the empty string stands for None
_extract_own_public_id(me) ==
    IF me.miniProfile.present = "dict" /\ me.miniProfile.publicIdentifier # <<>>
    THEN me.miniProfile.publicIdentifier
    ELSE IF me.publicIdentifier # Absent /\ me.publicIdentifier # <<>> THEN me.publicIdentifier
    ELSE IF me.vanityName # <<>> THEN me.vanityName
    ELSE IF me.public_id # <<>> THEN me.public_id
    ELSE <<>>

\* str(me["plainId"])
Str(n) == IF n = 42 THEN <<"42">> ELSE <<"0">>

\* (variant: the top-level entityUrn is looked at before miniProfile)
_extract_own_urn_id_FlatFirst(me) ==
    IF Len(me.entityUrn) >= 2 THEN LastSegment(me.entityUrn)
    ELSE IF me.miniProfile.present = "dict" /\ Len(me.miniProfile.entityUrn) >= 2
    THEN LastSegment(me.miniProfile.entityUrn)
    ELSE IF Len(me.objectUrn) >= 2 THEN LastSegment(me.objectUrn)
    ELSE IF me.plainId # 0 THEN Str(me.plainId)
    ELSE <<>>

\* def _extract_own_urn_id(me); the empty string stands for None
_extract_own_urn_id(me) ==
    IF me.miniProfile.present = "dict" /\ Len(me.miniProfile.entityUrn) >= 2
    THEN LastSegment(me.miniProfile.entityUrn)
    ELSE IF Len(me.entityUrn) >= 2 THEN LastSegment(me.entityUrn)
    ELSE IF Len(me.objectUrn) >= 2 THEN LastSegment(me.objectUrn)
    ELSE IF me.plainId # 0 THEN Str(me.plainId)
    ELSE <<>>

\* (variant: the first answer is taken as it is)
ReprobeDecision_Never(me) == "extract"

\* if _is_me_error(me): metadata.pop("me"); me = get_user_profile(use_cache=False)
ReprobeDecision(me) == IF _is_me_error(me) THEN "reprobe" ELSE "extract"

\* (variant: an unset override falls back to the handle "me")
OverrideFallback_Default(o) == IF o # Absent /\ o # <<>> THEN o ELSE <<"me">>

\* env_id = os.environ.get("LINKEDIN_PUBLIC_ID"); if env_id: ...; the empty
\* string stands for None
OverrideFallback(o) == IF o # Absent /\ o # <<>> THEN o ELSE <<>>

\* if not _is_me_error(me): id = extract(me); if id: return id
Extracted(op, me) ==
    IF _is_me_error(me) THEN <<>>
    ELSE IF op = "own_urn_id" THEN _extract_own_urn_id(me)
    ELSE _extract_own_public_id(me)

\* (variant: only member_urn is looked at)
ProfileId_UrnOnly(profile) ==
    IF profile.member_urn # <<>> THEN LastSegment(profile.member_urn) ELSE <<>>

\* profile.get("profile_id") or profile.get("member_urn", "").split(":")[-1] or None
ProfileId(profile) ==
    IF profile.profile_id # <<>> THEN profile.profile_id
    ELSE IF profile.member_urn # <<>> THEN LastSegment(profile.member_urn)
    ELSE <<>>

\* the run after _get_own_public_id or _get_own_urn_id gave `id` (or None)
OwnIdGiven(r, id) ==
    LET r1 == [r EXCEPT !.outs = Append(@, IF id # <<>> THEN Found(id) ELSE NotFound)] IN
    IF r.op # "own_profile" THEN [r1 EXCEPT !.pc = "done"]
    ELSE IF id = <<>>
    THEN [r1 EXCEPT !.pc = "done",
                    !.resp = ErrorResponse("set_LINKEDIN_PUBLIC_ID_text", "LINKEDIN_ERROR")]
    ELSE [r1 EXCEPT !.pc = "profile"]

\* the run after an upstream call of the extractor raised
OwnIdRaised(r) ==
    [r EXCEPT !.outs = Append(@, Failed), !.pc = "done",
              !.resp = IF r.op = "own_profile"
                       THEN ExceptResponse ELSE @]

\* (variant: a configured override is used before the probe's handle)
AfterProbes_OverrideFirst(r, me) ==
    IF r.op # "own_urn_id" /\ OverrideFallback(r.override) # <<>>
    THEN OwnIdGiven(r, OverrideFallback(r.override))
    ELSE IF Extracted(r.op, me) # <<>> THEN OwnIdGiven(r, Extracted(r.op, me))
    ELSE IF r.op = "own_urn_id"
    THEN IF OverrideFallback(r.override) # <<>> THEN [r EXCEPT !.pc = "lookup"]
         ELSE OwnIdGiven(r, <<>>)
    ELSE OwnIdGiven(r, <<>>)

\* the run after the last probe was answered by me
AfterProbes(r, me) ==
    IF Extracted(r.op, me) # <<>> THEN OwnIdGiven(r, Extracted(r.op, me))
    ELSE IF r.op = "own_urn_id"
    THEN IF OverrideFallback(r.override) # <<>> THEN [r EXCEPT !.pc = "lookup"]
         ELSE OwnIdGiven(r, <<>>)
    ELSE OwnIdGiven(r, OverrideFallback(r.override))

\* the /me answers the running operation can get
MeResponsesFor(op) == IF op = "own_urn_id" THEN MeUrnResponses ELSE MePublicResponses

\* _get_own_public_id(api) called with the session's api
CallGetOwnPublicId ==
    /\ run = NoRun
    /\ GetClientOutcome = "ok"
    /\ \E o \in Overrides :
         run' = [NoRun EXCEPT !.op = "own_public_id", !.override = o, !.pc = "probe1"]
    /\ UNCHANGED <<session, mcp, repl>>

\* _get_own_urn_id(api) called with the session's api
CallGetOwnUrnId ==
    /\ run = NoRun
    /\ GetClientOutcome = "ok"
    /\ \E o \in Overrides :
         run' = [NoRun EXCEPT !.op = "own_urn_id", !.override = o, !.pc = "probe1"]
    /\ UNCHANGED <<session, mcp, repl>>

\* handle_get_own_profile(), up to its first upstream call
CallGetOwnProfile ==
    /\ run = NoRun
    /\ GetClientOutcome # "build"
    /\ \E o \in Overrides :
         LET r0 == [NoRun EXCEPT !.op = "own_profile", !.override = o] IN
         run' = IF GetClientOutcome = "raise"
                THEN [r0 EXCEPT !.pc = "done",
                                !.resp = ExceptResponse]
                ELSE [r0 EXCEPT !.pc = "probe1"]
    /\ UNCHANGED <<session, mcp, repl>>

\* me = api.get_user_profile(), and the eviction when it is an error
FirstMeProbe ==
    /\ run.pc = "probe1"
    /\ \E me \in MeResponsesFor(run.op) :
         LET r1 == [run EXCEPT !.calls = Append(@, ProfileCall("get_user_profile", TRUE, Absent, me))] IN
         run' = IF me.kind = "raise" THEN OwnIdRaised(r1)
                ELSE IF ReprobeDecision(me) = "reprobe"
                THEN [r1 EXCEPT !.calls = Append(@, ProfileCall("metadata.pop", TRUE, Absent, NoAnswer)),
                                !.pc = "probe2"]
                ELSE AfterProbes(r1, me)
    /\ UNCHANGED <<session, mcp, repl>>

\* me = api.get_user_profile(use_cache=False)
SecondMeProbe ==
    /\ run.pc = "probe2"
    /\ \E me \in MeResponsesFor(run.op) :
         LET r1 == [run EXCEPT !.calls = Append(@, ProfileCall("get_user_profile", FALSE, Absent, me))] IN
         run' = IF me.kind = "raise" THEN OwnIdRaised(r1) ELSE AfterProbes(r1, me)
    /\ UNCHANGED <<session, mcp, repl>>

\* profile = api.get_profile(public_id) in _get_own_urn_id; its exception is caught
OverrideLookup ==
    /\ run.pc = "lookup"
    /\ \E p \in ProfileResponses :
         LET r1 == [run EXCEPT !.calls = Append(@,
                        ProfileCall("get_profile", TRUE, OverrideFallback(run.override), p))] IN
         run' = OwnIdGiven(r1, IF p.kind = "raise" THEN <<>> ELSE ProfileId(p))
    /\ UNCHANGED <<session, mcp, repl>>

\* raw = api.get_profile(public_id) in handle_get_own_profile
GetOwnProfile ==
    /\ run.pc = "profile"
    /\ \E p \in ProfileResponses :
         LET r1 == [run EXCEPT !.calls = Append(@,
                        ProfileCall("get_profile", TRUE, run.outs[1].id, p)),
                               !.pc = "done"] IN
         run' = [r1 EXCEPT !.resp = IF p.kind = "raise"
                                    THEN ExceptResponse
                                    ELSE SuccessResponse]
    /\ UNCHANGED <<session, mcp, repl>>

\* the extractor and handle_get_own_profile
NextProfile ==
    \/ CallGetOwnPublicId
    \/ CallGetOwnUrnId
    \/ CallGetOwnProfile
    \/ FirstMeProbe
    \/ SecondMeProbe
    \/ OverrideLookup
    \/ GetOwnProfile

SpecProfile == InitTools /\ [][NextProfile]_vars

\* ---- handle_get_connections: src/tools/network.py ------------------------
\* get_profile_connections(urn_id): a list of connections, or an exception
ConnectionsOutcomes == {"list", "raise"}

\* handle_get_connections(), up to its first upstream call
CallGetConnections ==
    /\ run = NoRun
    /\ GetClientOutcome # "build"
    /\ \E o \in Overrides :
         LET r0 == [NoRun EXCEPT !.op = "connections", !.override = o] IN
         run' = IF GetClientOutcome = "raise"
                THEN [r0 EXCEPT !.pc = "done", !.resp = ExceptResponse]
                ELSE [r0 EXCEPT !.pc = "conn_probe"]
    /\ UNCHANGED <<session, mcp, repl>>

\* own_profile = api.get_user_profile(); urn_id = _extract_own_urn_id(own_profile)
ConnectionsProbe ==
    /\ run.pc = "conn_probe"
    /\ \E me \in MeUrnResponses :
         LET r1 == [run EXCEPT !.calls = Append(@, ProfileCall("get_user_profile", TRUE, Absent, me))]
             urn_id == _extract_own_urn_id(me)
         IN run' = IF me.kind = "raise"
                   THEN [r1 EXCEPT !.outs = <<Failed>>, !.pc = "done", !.resp = ExceptResponse]
                   ELSE IF urn_id = <<>>
                   THEN [r1 EXCEPT !.outs = <<NotFound>>, !.pc = "done",
                                   !.resp = ErrorResponse("no_own_urn_text", "LINKEDIN_ERROR")]
                   ELSE [r1 EXCEPT !.outs = <<Found(urn_id)>>, !.pc = "connections"]
    /\ UNCHANGED <<session, mcp, repl>>

\* raw = api.get_profile_connections(urn_id), and the response built from it
GetProfileConnections ==
    /\ run.pc = "connections"
    /\ \E o \in ConnectionsOutcomes :
         run' = [run EXCEPT !.calls = Append(@,
                     ProfileCall("get_profile_connections", TRUE, run.outs[1].id,
                                 [kind |-> o])),
                            !.pc = "done",
                            !.resp = IF o = "raise" THEN ExceptResponse ELSE SuccessResponse]
    /\ UNCHANGED <<session, mcp, repl>>

NextConnections ==
    \/ CallGetConnections
    \/ ConnectionsProbe
    \/ GetProfileConnections

SpecConnections == InitTools /\ [][NextConnections]_vars

\* ---- handle_get_conversations: src/tools/messaging.py --------------------
\* handle_get_conversations(limit), up to its first upstream call
CallGetConversations ==
    /\ run = NoRun
    /\ GetClientOutcome # "build"
    /\ run' = IF GetClientOutcome = "raise"
              THEN [NoRun EXCEPT !.op = "conversations", !.pc = "done", !.resp = ExceptResponse]
              ELSE [NoRun EXCEPT !.op = "conversations", !.pc = "inbox"]
    /\ UNCHANGED <<session, mcp, repl>>

\* raw = api.get_conversations(), and the response built from it
GetConversations ==
    /\ run.pc = "inbox"
    /\ \E raw \in ConvResponses :
         run' = [run EXCEPT !.calls = Append(@,
                     Call(0, "get_conversations", Absent, Absent, Absent, FALSE,
                          [kind |-> ConvList(raw).kind, items |-> <<>>])),
                            !.scan = ConvList(raw),
                            !.pc = "done",
                            !.resp = IF raw.kind = "raise" THEN ExceptResponse ELSE SuccessResponse]
    /\ UNCHANGED <<session, mcp, repl>>

\* ---- the tool handlers together ------------------------------------------
NextHandlers ==
    \/ CallSendMessage
    \/ KeywordSearch
    \/ NameSearch
    \/ BroadSearch
    \/ ConversationScan
    \/ SendMessage
    \/ CallGetOwnProfile
    \/ FirstMeProbe
    \/ SecondMeProbe
    \/ GetOwnProfile
    \/ CallGetConnections
    \/ ConnectionsProbe
    \/ GetProfileConnections
    \/ CallGetConversations
    \/ GetConversations

SpecHandlers == InitTools /\ [][NextHandlers]_vars

\* ---- the server process: src/main.py -------------------------------------
\* the process as main.py finds it: any environment, no session yet
InitServer ==
    /\ env \in Envs
    /\ cookieFile \in BOOLEAN
    /\ _client = None
    /\ pc = [t \in Callers |-> "idle"]
    /\ client = [t \in Callers |-> None]
    /\ result = [t \in Callers |-> NoResult]
    /\ log = [t \in Callers |-> NewLog({})]
    /\ returned = {}
    /\ nextId = 1
    /\ calls = 0
    /\ run = NoRun
    /\ mcp = "starting"
    /\ repl = NoRepl

\* main.py: logging.basicConfig, load_dotenv, FastMCP("linkedin"), the five
\* register_*_tools(mcp) calls and mcp.run(); no credential is read
Startup ==
    /\ mcp = "starting"
    /\ mcp' = "running"
    /\ UNCHANGED <<session, run, repl>>

\* the running server serves a send_message call
ServeSendMessage ==
    /\ mcp = "running"
    /\ CallSendMessage

\* the running server serves a get_own_profile call
ServeGetOwnProfile ==
    /\ mcp = "running"
    /\ CallGetOwnProfile

\* the running server serves a get_connections call
ServeGetConnections ==
    /\ mcp = "running"
    /\ CallGetConnections

\* the running server serves a get_conversations call
ServeGetConversations ==
    /\ mcp = "running"
    /\ CallGetConversations

\* the server from its start to its first tool call, for the environments in
\* which get_client() makes no upstream call
NextServer ==
    \/ Startup
    \/ ServeSendMessage
    \/ ServeGetOwnProfile
    \/ ServeGetConnections
    \/ ServeGetConversations

SpecServer == InitServer /\ [][NextServer]_vars

\* ---- properties of the session manager ----------------------------------
\* the configuration, read off os.environ
CookiePair == env.li_at /\ env.jsessionid
PasswordPair == env.email /\ env.password

\* caller t's last get_client() call has ended
Done(t) == Idle(t) /\ result[t].kind # "none"
GotSession(t) == Done(t) /\ result[t].kind = "session"
LoginRaised(t) == result[t].kind = "error" /\ result[t].err = "login_raised"

IsCookie(x) == x.source = "cookie"
IsPassword(x) == x.source = "password"
OnCookie(p) == p.src = "cookie"
OnPassword(p) == p.src = "password"
CookieBuilds(t) == SelectSeq(log[t].builds, IsCookie)
PwBuilds(t) == SelectSeq(log[t].builds, IsPassword)
CookieProbes(t) == SelectSeq(log[t].probes, OnCookie)
PwProbes(t) == SelectSeq(log[t].probes, OnPassword)
LastBuilt(t) == log[t].builds[Len(log[t].builds)]
NoUpstreamWork(t) ==
    /\ log[t].builds = <<>>
    /\ log[t].logins = 0
    /\ log[t].probes = <<>>
    /\ log[t].dels = 0

\* C1: once a get_client() call has returned a session, every later call
\* made before reset_client() returns that same session and performs no
\* session build, no probe and no cookie-file deletion, whether or not the
\* session had passed validation.
C1_CachedSessionReused ==
    /\ Cardinality(returned) <= 1
    /\ \A t \in Callers :
         log[t].seen # {} =>
            /\ GotSession(t)
            /\ log[t].seen = {result[t].s}
            /\ NoUpstreamWork(t)

\* a caller got, without any upstream work, the session another caller had
\* built and cached although its last probe was invalid
C1_Witness ==
    \E t, u \in Callers :
        /\ t # u
        /\ log[t].seen # {}
        /\ GotSession(t) /\ GotSession(u)
        /\ result[t].s = result[u].s
        /\ log[u].probes # <<>>
        /\ ~log[u].probes[Len(log[u].probes)].valid

\* C2: callers that enter get_client() concurrently while no session is
\* cached build at most one session and issue at most one login between
\* them, and all receive the same session.
C2_SingleFlight ==
    /\ Cardinality(returned) <= 1
    /\ \A t, u \in Callers :
         (t # u /\ InFlight(t) /\ InFlight(u)) =>
            /\ log[t].builds = <<>> \/ log[u].builds = <<>>
            /\ log[t].logins = 0 \/ log[u].logins = 0

\* C3: with neither a complete cookie pair nor a complete password pair,
\* get_client() ends with the configuration error, having built no session
\* and issued no probe.
C3_Unconfigured ==
    (~CookiePair /\ ~PasswordPair) =>
        \A t \in Callers :
            /\ Idle(t)
            /\ result[t].kind \in {"none", "error"}
            /\ result[t].kind = "error" =>
                 result[t].err \in {"credentials_not_set", "cookies_expired_no_fallback"}
            /\ NoUpstreamWork(t)
            /\ _client = None

C3_Witness ==
    /\ ~CookiePair /\ ~PasswordPair
    /\ \E t \in Callers : Done(t) /\ result[t].kind = "error"

C5_TwoInvalidProbes ==
    \A t \in Callers :
        (Idle(t) /\ Len(PwProbes(t)) = 2
           /\ ~PwProbes(t)[1].valid /\ ~PwProbes(t)[2].valid) =>
            /\ log[t].dels = 1
            /\ GotSession(t)
            /\ result[t].s = LastBuilt(t)
            /\ result[t].cached
            /\ Len(PwBuilds(t)) = 2

C5_Witness ==
    \E t \in Callers :
        /\ GotSession(t)
        /\ Len(PwProbes(t)) = 2
        /\ ~PwProbes(t)[1].valid /\ ~PwProbes(t)[2].valid
        /\ _client = result[t].s

C7_AtMostTwoProbes ==
    \A t \in Callers : Len(log[t].probes) <= 2

\* C7 (amended): one get_client() call issues at most three probes: at most
\* one on the cookie-built session and at most two on password-built
\* sessions; at most two in total unless both credential kinds are
\* configured.
C7_AtMostThreeProbes ==
    \A t \in Callers :
        /\ Len(log[t].probes) <= 3
        /\ Len(CookieProbes(t)) <= 1
        /\ Len(PwProbes(t)) <= 2
        /\ ~(CookiePair /\ PasswordPair) => Len(log[t].probes) <= 2

C7_Witness ==
    \E t \in Callers : Done(t) /\ Len(log[t].probes) = 3

\* C8: with both credential kinds configured and a valid probe of the
\* cookie-built session, get_client() returns the cookie-built session and
\* never attempts the password login.
C8_CookiesPreferred ==
    \A t \in Callers :
        (CookiePair /\ PasswordPair /\ log[t].probes # <<>>
           /\ log[t].probes[1].src = "cookie" /\ log[t].probes[1].valid) =>
            /\ GotSession(t)
            /\ result[t].s.source = "cookie"
            /\ log[t].builds = <<result[t].s>>
            /\ log[t].logins = 0
            /\ Len(log[t].probes) = 1

C8_Witness ==
    \E t \in Callers :
        /\ CookiePair /\ PasswordPair
        /\ GotSession(t)
        /\ log[t].probes # <<>> /\ log[t].probes[1].valid
        /\ result[t].s.source = "cookie"

C10_DeletionOnlyInRepair ==
    [][ /\ (cookieFile /\ ~cookieFile') =>
            \E t \in Callers :
                /\ pc[t] = "pw_probe1" /\ pc'[t] = "pw_relogin"
                /\ log'[t].dels = log[t].dels + 1
                /\ ~log'[t].probes[Len(log'[t].probes)].valid
        /\ \A t \in Callers :
            /\ log'[t].dels <= 1
            /\ log'[t].dels > log[t].dels => (cookieFile /\ ~cookieFile')
            /\ (log'[t].probes # <<>> /\ log'[t].probes[1].valid) => log'[t].dels = 0
            /\ log'[t].seen # {} => log'[t].dels = 0
      ]_vars

C10_Witness ==
    \E t \in Callers : log[t].dels = 1 /\ ~cookieFile


\* ---- properties of the identity resolver --------------------------------
\* _resolve_recipient, called on its own, has returned or raised
ResolverReturned == run.op = "resolve" /\ run.pc = "done"

\* the reference it was called with, and what it gave back
Reference == run.recipients[1]
Outcome == run.outs[1]

NoBlankNoComma(s) == ~Has(s, " ") /\ ~Has(s, ",")

\* the strategy an upstream call belongs to
Strategy(c) ==
    CASE c.op = "get_conversations" -> "conv"
      [] c.op = "send_message" -> "send"
      [] c.keywords = Absent -> "name"
      [] c.broad -> "broad"
      [] OTHER -> "kw"

\* the strategies of the calls made so far for recipient number w, in order
RECURSIVE OrderOf(_, _)
OrderOf(cs, w) ==
    IF cs = <<>> THEN <<>>
    ELSE (IF Head(cs).who = w THEN <<Strategy(Head(cs))>> ELSE <<>>) \o OrderOf(Tail(cs), w)

\* the call was answered with a top candidate that has an id
HasId(c) == c.resp.kind = "list" /\ c.resp.items # <<>> /\ c.resp.items[1].urn_id # <<>>

\* the call was answered with an empty result list
IsEmpty(c) == c.resp.kind = "list" /\ c.resp.items = <<>>

\* the whitespace-separated tokens of the reference
Tokens == Split(Reference)

\* the whole cascade for a reference
FullOrder(ref) ==
    <<"kw">> \o (IF Len(Split(ref)) >= 2 THEN <<"name">> ELSE <<>>) \o <<"broad", "conv">>

C12_KeywordHitEndsCascade ==
    (run.op = "resolve" /\ run.calls # <<>> /\ HasId(run.calls[1]))
        => /\ Strategy(run.calls[1]) = "kw"
           /\ run.calls[1].keywords = Reference
           /\ run.pc = "done"
           /\ Len(run.calls) = 1
           /\ Outcome = Found(run.calls[1].resp.items[1].urn_id)

C12_Witness ==
    /\ ResolverReturned
    /\ Len(run.calls) = 1
    /\ HasId(run.calls[1])
    /\ Outcome = Found(<<"u1">>)

\* C13: the calls of one resolution are an initial part of keyword search,
\* name search (references of two or more tokens only), broad search,
\* conversation scan, in that order and once each; only the last call can have
\* given an id, and after it nothing runs.
C13_FixedOrderOnceEach ==
    run.op = "resolve" =>
        /\ Len(run.calls) <= 4
        /\ OrderOf(run.calls, 1) = SubSeq(FullOrder(Reference), 1, Len(run.calls))
        /\ \A i \in DOMAIN run.calls :
             /\ Strategy(run.calls[i]) = "conv" => i = Len(run.calls) /\ run.pc = "done"
             /\ Strategy(run.calls[i]) # "conv" =>
                  /\ (HasId(run.calls[i]) \/ run.calls[i].resp.kind = "raise")
                        => (i = Len(run.calls) /\ run.pc = "done")
                  /\ i < Len(run.calls) => ~HasId(run.calls[i])
        /\ (run.pc = "done" /\ Outcome = NotFound)
              => OrderOf(run.calls, 1) = FullOrder(Reference)

C13_Witness ==
    /\ ResolverReturned
    /\ OrderOf(run.calls, 1) = <<"kw", "name", "broad", "conv">>
    /\ \A i \in 1..3 : ~HasId(run.calls[i])
    /\ Outcome = NotFound

\* the participants the scan walked whose trimmed, lower-cased full name is
\* the trimmed, lower-cased reference and whose urn has an id segment
NormalizedMatches ==
    {i \in DOMAIN run.scan.parts :
        /\ Lower(Strip(run.scan.parts[i].firstName \o <<" ">> \o run.scan.parts[i].lastName))
              = Lower(Strip(Reference))
        /\ Len(run.scan.parts[i].entityUrn) >= 2}

\* C14: when the three searches return empty and a participant's trimmed,
\* lower-cased full name equals the trimmed, lower-cased reference, the
\* resolver returns that participant's id from the conversation payload.
C14_NormalizedNameMatch ==
    (/\ ResolverReturned
     /\ run.scan.kind = "elements"
     /\ \A i \in DOMAIN run.calls : Strategy(run.calls[i]) # "conv" => IsEmpty(run.calls[i])
     /\ NormalizedMatches # {})
        => /\ Outcome.kind = "id"
           /\ \E i \in NormalizedMatches :
                Outcome.id = run.scan.parts[i].entityUrn[Len(run.scan.parts[i].entityUrn)]

\* C16: an upstream call of the resolution that raised is reported as an
\* upstream error, never as an unknown recipient.
C16_FailureNeverNotFound ==
    \A i \in DOMAIN run.calls :
        (run.calls[i].who >= 1 /\ run.calls[i].resp.kind = "raise")
            => /\ run.pc = "done"
               /\ run.outs[Len(run.outs)] = Failed
               /\ run.op = "send" => run.resp.code = "LINKEDIN_ERROR"

\* C17: for a reference of two or more tokens whose keyword search is empty,
\* the name search is called with the first token as first name and the other
\* tokens, joined by blanks, as last name; when it gives a top candidate with
\* an id, that id is returned and neither the broad search nor the
\* conversation scan is made.
C17_NameSearchSplit ==
    (run.op = "resolve" /\ Len(Tokens) >= 2 /\ run.calls # <<>> /\ IsEmpty(run.calls[1]))
        => /\ Len(run.calls) = 1 => run.pc = "s2"
           /\ Len(run.calls) >= 2 =>
                /\ Strategy(run.calls[2]) = "name"
                /\ run.calls[2].first = Tokens[1]
                /\ run.calls[2].last = Join(SubSeq(Tokens, 2, Len(Tokens)))
                /\ HasId(run.calls[2]) =>
                     /\ run.pc = "done"
                     /\ Len(run.calls) = 2
                     /\ Outcome = Found(run.calls[2].resp.items[1].urn_id)

C17_Witness ==
    /\ ResolverReturned
    /\ Len(Tokens) = 3
    /\ Tokens[2] # Tokens[3]
    /\ IsEmpty(run.calls[1])
    /\ Len(run.calls) = 2
    /\ run.calls[2].last = Tokens[2] \o <<" ">> \o Tokens[3]
    /\ Outcome = Found(<<"u1">>)

\* ---- properties of handle_send_message ----------------------------------
\* C15: when the cascade ends without an id, the resolver gives None after
\* the whole cascade for that recipient, and handle_send_message answers
\* RECIPIENT_NOT_FOUND without calling send_message.
C15_NotFoundStopsSend ==
    (run.op = "send" /\ run.outs # <<>> /\ run.outs[Len(run.outs)] = NotFound)
        => /\ OrderOf(run.calls, run.idx) = FullOrder(Ref(run))
           /\ \A i \in DOMAIN run.calls : ~HasId(run.calls[i]) \/ run.calls[i].who < run.idx
           /\ run.pc = "done"
           /\ run.resp = ErrorResponse("recipient_text", "RECIPIENT_NOT_FOUND")
           /\ \A i \in DOMAIN run.calls : run.calls[i].op # "send_message"

C15_Witness ==
    /\ run.op = "send"
    /\ run.pc = "done"
    /\ run.idx = 2
    /\ run.outs[1].kind = "id"
    /\ run.outs[2] = NotFound
    /\ OrderOf(run.calls, 2) = <<"kw", "name", "broad", "conv">>
    /\ \A i \in DOMAIN run.calls : run.calls[i].resp.kind # "raise"
    /\ run.resp.code = "RECIPIENT_NOT_FOUND"

\* ---- properties of the own-identity extractor ---------------------------
\* the health probes and the evictions of the running operation, in call order
MeProbes == SelectSeq(run.calls, LAMBDA c : c.op = "get_user_profile")
Evictions == SelectSeq(run.calls, LAMBDA c : c.op = "metadata.pop")
Lookups == SelectSeq(run.calls, LAMBDA c : c.op = "get_profile")

OwnIdOp == run.op \in {"own_public_id", "own_urn_id", "own_profile"}

\* C19: in _get_own_public_id and _get_own_urn_id an error-shaped first probe
\* is followed by the eviction of the cached answer and by exactly one probe
\* that bypasses the cache; a profile-shaped first probe is followed by
\* neither; no call makes more than two probes.
C19_OneForcedReprobe ==
    (OwnIdOp /\ run.calls # <<>>) =>
        /\ run.calls[1].op = "get_user_profile" /\ run.calls[1].use_cache
        /\ Len(MeProbes) <= 2 /\ Len(Evictions) <= 1
        /\ (run.calls[1].resp.kind = "dict" /\ _is_me_error(run.calls[1].resp)) =>
              /\ Len(run.calls) >= 2 /\ run.calls[2].op = "metadata.pop"
              /\ Len(run.calls) = 2 => run.pc = "probe2"
              /\ Len(run.calls) >= 3 =>
                    /\ run.calls[3].op = "get_user_profile" /\ ~run.calls[3].use_cache
                    /\ Len(MeProbes) = 2
        /\ (run.calls[1].resp.kind = "dict" /\ ~_is_me_error(run.calls[1].resp)) =>
              /\ Evictions = <<>>
              /\ Len(MeProbes) = 1
              /\ run.pc # "probe2"

C19_Witness ==
    /\ run.op = "own_urn_id"
    /\ run.pc = "done"
    /\ Len(run.calls) = 3
    /\ _is_me_error(run.calls[1].resp)
    /\ run.calls[2].op = "metadata.pop"
    /\ run.calls[3].op = "get_user_profile" /\ ~run.calls[3].use_cache
    /\ run.calls[3].resp.kind = "dict" /\ ~_is_me_error(run.calls[3].resp)
    /\ run.outs = <<Found(<<"m1">>)>>

\* C20: when the re-probe is error-shaped as well and LINKEDIN_PUBLIC_ID is
\* not set (or empty), handle_get_own_profile answers with the error that
\* names LINKEDIN_PUBLIC_ID and makes no profile lookup.
C20_NoOverrideNoIdentity ==
    (/\ run.op = "own_profile"
     /\ Len(MeProbes) = 2
     /\ MeProbes[2].resp.kind = "dict" /\ _is_me_error(MeProbes[2].resp)
     /\ run.override \in {Absent, <<>>})
        => /\ run.pc = "done"
           /\ run.outs = <<NotFound>>
           /\ run.resp = ErrorResponse("set_LINKEDIN_PUBLIC_ID_text", "LINKEDIN_ERROR")
           /\ Lookups = <<>>

C20_Witness ==
    /\ run.op = "own_profile"
    /\ run.pc = "done"
    /\ run.override = Absent
    /\ Len(MeProbes) = 2
    /\ _is_me_error(MeProbes[1].resp) /\ _is_me_error(MeProbes[2].resp)
    /\ run.resp.msg = "set_LINKEDIN_PUBLIC_ID_text"
    /\ Lookups = <<>>


\* the last health probe of the running operation, once no further probe follows
ProbesOver == MeProbes # <<>> /\ run.pc \notin {"probe1", "probe2"}
LastProbe == MeProbes[Len(MeProbes)].resp

\* LINKEDIN_PUBLIC_ID holds a handle
OverrideSet == run.override # Absent /\ run.override # <<>>

\* C21: in _get_own_urn_id, when the probe response gives no id and
\* LINKEDIN_PUBLIC_ID is set, exactly one get_profile call is made, with the
\* override as its argument, and the id of the returned profile (profile_id,
\* else the last segment of member_urn) is the result.
C21_OneOverrideLookup ==
    (/\ run.op = "own_urn_id"
     /\ ProbesOver
     /\ LastProbe.kind = "dict"
     /\ Extracted("own_urn_id", LastProbe) = <<>>
     /\ OverrideSet)
        => /\ run.pc \in {"lookup", "done"}
           /\ run.pc = "lookup" => Lookups = <<>>
           /\ run.pc = "done" =>
                /\ Len(Lookups) = 1
                /\ Lookups[1].public_id = run.override
                /\ (Lookups[1].resp.kind = "dict" /\ Lookups[1].resp.profile_id # <<>>)
                      => run.outs = <<Found(Lookups[1].resp.profile_id)>>
                /\ (/\ Lookups[1].resp.kind = "dict"
                    /\ Lookups[1].resp.profile_id = <<>>
                    /\ Lookups[1].resp.member_urn # <<>>)
                      => run.outs = <<Found(Lookups[1].resp.member_urn[Len(Lookups[1].resp.member_urn)])>>

C21_Witness ==
    /\ run.op = "own_urn_id"
    /\ run.pc = "done"
    /\ Len(MeProbes) = 2
    /\ _is_me_error(LastProbe)
    /\ run.override = <<"h0">>
    /\ Len(Lookups) = 1
    /\ Lookups[1].public_id = <<"h0">>
    /\ Lookups[1].resp.profile_id = <<"i1">>
    /\ Lookups[1].resp.member_urn = <<<<"urn">>, <<"m2">>>>
    /\ run.outs = <<Found(<<"i1">>)>>


\* the /me answers (dicts) the running operation has received so far
MeAnswers == {MeProbes[i].resp : i \in DOMAIN MeProbes} \ {MeRaise}

\* the last segment of the first populated urn field, in the order
\* miniProfile.entityUrn, entityUrn, objectUrn, else plainId as a string
FirstPopulatedUrnId(me) ==
    IF me.miniProfile.present = "dict" /\ me.miniProfile.entityUrn # <<>>
    THEN me.miniProfile.entityUrn[Len(me.miniProfile.entityUrn)]
    ELSE IF me.entityUrn # <<>> THEN me.entityUrn[Len(me.entityUrn)]
    ELSE IF me.objectUrn # <<>> THEN me.objectUrn[Len(me.objectUrn)]
    ELSE IF me.plainId = 42 THEN <<"42">>
    ELSE <<>>

\* a urn counts only when it contains a colon (two segments or more)
HasColon(urn) == Len(urn) > 1

\* the same order over the urn fields that contain a colon
FirstColonUrnId(me) ==
    IF me.miniProfile.present = "dict" /\ HasColon(me.miniProfile.entityUrn)
    THEN me.miniProfile.entityUrn[Len(me.miniProfile.entityUrn)]
    ELSE IF HasColon(me.entityUrn) THEN me.entityUrn[Len(me.entityUrn)]
    ELSE IF HasColon(me.objectUrn) THEN me.objectUrn[Len(me.objectUrn)]
    ELSE IF me.plainId = 42 THEN <<"42">>
    ELSE <<>>

\* C22 (as stated): _extract_own_urn_id gives the last segment of the first
\* populated field of miniProfile.entityUrn, entityUrn, objectUrn, else the
\* string of plainId, and none only when none of them is populated.
C22_FirstPopulatedWins ==
    run.op = "own_urn_id" =>
        \A me \in MeAnswers : _extract_own_urn_id(me) = FirstPopulatedUrnId(me)

\* C22 (amended): _extract_own_urn_id gives the last segment of the first
\* field of miniProfile.entityUrn, entityUrn, objectUrn that contains a colon
\* (a populated urn without colon is passed over), else the string of plainId,
\* else none; a profile-shaped last probe with such an id makes it the result
\* of _get_own_urn_id.
C22_FirstColonUrnWins ==
    run.op = "own_urn_id" =>
        /\ \A me \in MeAnswers : _extract_own_urn_id(me) = FirstColonUrnId(me)
        /\ (/\ ProbesOver
            /\ LastProbe.kind = "dict"
            /\ ~_is_me_error(LastProbe)
            /\ FirstColonUrnId(LastProbe) # <<>>)
              => (run.pc = "done" /\ run.outs = <<Found(FirstColonUrnId(LastProbe))>>)

C22_Witness ==
    /\ run.op = "own_urn_id"
    /\ run.pc = "done"
    /\ LastProbe.kind = "dict"
    /\ LastProbe.miniProfile.present = "dict"
    /\ LastProbe.miniProfile.entityUrn = <<<<"m0">>>>
    /\ LastProbe.entityUrn = <<<<"urn">>, <<"e1">>>>
    /\ LastProbe.objectUrn # <<>>
    /\ LastProbe.plainId = 42
    /\ run.outs = <<Found(<<"e1">>)>>


\* the first non-empty string of a list, or the empty string
RECURSIVE FirstPopulated(_)
FirstPopulated(vals) ==
    IF vals = <<>> THEN <<>>
    ELSE IF Head(vals) # <<>> /\ Head(vals) # Absent THEN Head(vals)
    ELSE FirstPopulated(Tail(vals))

\* the handle fields of a /me answer in the order of the extraction
HandleFields(me) ==
    <<IF me.miniProfile.present = "dict" THEN me.miniProfile.publicIdentifier ELSE <<>>,
      me.publicIdentifier, me.vanityName, me.public_id>>

\* C23: _extract_own_public_id gives the first populated of
\* miniProfile.publicIdentifier, publicIdentifier, vanityName, public_id, and
\* none when none is populated; a profile-shaped last probe with a handle makes
\* that handle the result of _get_own_public_id.
C23_FirstPopulatedHandle ==
    run.op \in {"own_public_id", "own_profile"} =>
        /\ \A me \in MeAnswers : _extract_own_public_id(me) = FirstPopulated(HandleFields(me))
        /\ (/\ ProbesOver
            /\ LastProbe.kind = "dict"
            /\ ~_is_me_error(LastProbe)
            /\ FirstPopulated(HandleFields(LastProbe)) # <<>>)
              => run.outs = <<Found(FirstPopulated(HandleFields(LastProbe)))>>

C23_Witness ==
    /\ run.op = "own_public_id"
    /\ run.pc = "done"
    /\ LastProbe.kind = "dict"
    /\ LastProbe.miniProfile.publicIdentifier = <<"hm">>
    /\ LastProbe.publicIdentifier = <<"hp">>
    /\ LastProbe.vanityName = <<"hv">>
    /\ LastProbe.public_id = <<"hi">>
    /\ run.outs = <<Found(<<"hm">>)>>


\* ---- properties of handle_get_own_profile --------------------------------
\* C24: every run of handle_get_own_profile that did not determine the own
\* handle, the run whose health probe raised included, ends with the error
\* that names LINKEDIN_PUBLIC_ID, never with the text of the exception.
C24_FailureNamesOverride ==
    (/\ run.op = "own_profile"
     /\ run.pc = "done"
     /\ MeProbes # <<>>
     /\ run.outs[1].kind # "id")
        => run.resp = ErrorResponse("set_LINKEDIN_PUBLIC_ID_text", "LINKEDIN_ERROR")


\* ---- properties of handle_get_connections --------------------------------
ConnectionFetches == SelectSeq(run.calls, LAMBDA c : c.op = "get_profile_connections")

\* C29: in handle_get_connections an error-shaped health probe with
\* LINKEDIN_PUBLIC_ID set is followed by exactly one get_profile call with the
\* override, the connections are fetched with the id it returns, and the
\* result is a success (no upstream call raising).
C29_ErrorProbeFallsBackToOverride ==
    (/\ run.op = "connections"
     /\ run.pc = "done"
     /\ MeProbes # <<>>
     /\ MeProbes[1].resp.kind = "dict" /\ _is_me_error(MeProbes[1].resp)
     /\ OverrideSet
     /\ \A i \in DOMAIN run.calls : run.calls[i].resp.kind # "raise")
        => /\ Len(Lookups) = 1
           /\ Lookups[1].public_id = run.override
           /\ Len(ConnectionFetches) = 1
           /\ run.resp = SuccessResponse


\* ---- properties of all tool handlers -------------------------------------
HandlerOps == {"send", "own_profile", "connections", "conversations"}

\* error_response(...) with one of the handlers' error codes, or success_response(...)
StructuredResult(resp) ==
    \/ resp = SuccessResponse
    \/ /\ resp.success = FALSE
       /\ resp.code \in {"VALIDATION_ERROR", "LINKEDIN_ERROR", "RECIPIENT_NOT_FOUND",
                         "LINKEDIN_SEND_FAILED"}
       /\ resp.msg # ""

\* an upstream call of the running handler raised
SomeCallRaised == \E i \in DOMAIN run.calls : run.calls[i].resp.kind = "raise"

\* get_client() raised in the running handler
GetClientRaised ==
    /\ run.op \in HandlerOps
    /\ run.calls = <<>>
    /\ run.pc = "done"
    /\ GetClientOutcome = "raise"
    /\ run.op = "send" => Validate(run.body, run.conv, run.recipients) = "ok"

\* C25: every finished run of a tool handler carries a structured success or
\* error result; a run in which get_client() or an upstream call raised has
\* ended with a structured error result, so no exception leaves a handler.
C25_HandlersAlwaysAnswer ==
    run.op \in HandlerOps =>
        /\ run.pc = "done" => StructuredResult(run.resp)
        /\ SomeCallRaised =>
              (run.pc = "done" /\ run.resp.success = FALSE /\ StructuredResult(run.resp))
        /\ GetClientRaised => (run.resp.success = FALSE /\ StructuredResult(run.resp))

C25_Witness ==
    /\ run.op = "connections"
    /\ run.pc = "done"
    /\ Len(run.calls) = 2
    /\ run.calls[2].op = "get_profile_connections"
    /\ run.calls[2].resp.kind = "raise"
    /\ run.resp = ErrorResponse("exception_text", "LINKEDIN_ERROR")


\* ---- properties of the server process ------------------------------------
\* no credential form is configured: neither both cookies nor email and password
Unconfigured == ~UseCookies(env) /\ CredentialCheck(env) # "pw_login"

\* C26: with no credential form configured the server does not get past its
\* startup and serves no tool call.
C26_ConfigErrorHaltsStartup ==
    Unconfigured => (mcp = "starting" /\ run = NoRun)


\* ---- the two classifiers of a /me answer ----------------------------------
\* every /me answer of the extractor's model
MeAll == MePublicResponses \cup MeUrnResponses

\* the top-level keys of a /me answer that _is_session_valid looks for
KeysOf(me) ==
    (IF me.status THEN {"status"} ELSE {}) \cup
    (IF me.miniProfile.present # "nokey" THEN {"miniProfile"} ELSE {}) \cup
    (IF me.publicIdentifier # Absent THEN {"publicIdentifier"} ELSE {})

\* the answer as the session manager's probe sees it
AsProbe(me) == [kind |-> me.kind, keys |-> KeysOf(me)]

\* client.get_user_profile() answers and _is_session_valid classifies it
ProbeSessionValid ==
    /\ run = NoRun
    /\ \E me \in MeAll :
         run' = [NoRun EXCEPT !.op = "classify", !.pc = "me_error",
                    !.calls = <<ProfileCall("get_user_profile", TRUE, Absent, me)>>,
                    !.resp = [success |-> _is_session_valid(AsProbe(me)),
                              code |-> "", msg |-> ""]]
    /\ UNCHANGED <<session, mcp, repl>>

\* _is_me_error classifies the same answer
ProbeMeError ==
    /\ run.op = "classify"
    /\ run.pc = "me_error"
    /\ run' = [run EXCEPT !.pc = "done",
                  !.resp.code = IF run.calls[1].resp.kind = "dict"
                                   /\ _is_me_error(run.calls[1].resp)
                                THEN "ErrorShape" ELSE "ProfileShape"]
    /\ UNCHANGED <<session, mcp, repl>>

NextClassify ==
    \/ ProbeSessionValid
    \/ ProbeMeError

SpecClassify == InitCached /\ [][NextClassify]_vars

\* ---- properties of the classifiers ----------------------------------------
\* the answer that was classified, and the two verdicts
Classified == run.op = "classify" /\ run.pc = "done" /\ run.calls[1].resp.kind = "dict"
ClassifiedMe == run.calls[1].resp
SessionValid == run.resp.success
MeError == run.resp.code = "ErrorShape"

\* profile data as _is_me_error's docstring counts it: the miniProfile
\* container or the flat publicIdentifier
ProfilePayload(me) == me.miniProfile.present # "nokey" \/ me.publicIdentifier # Absent

\* nothing but the status key
StatusOnly(me) ==
    /\ me.status
    /\ ~ProfilePayload(me)
    /\ me.vanityName = <<>> /\ me.public_id = <<>>
    /\ me.entityUrn = <<>> /\ me.objectUrn = <<>> /\ me.plainId = 0

\* C27: a /me answer with a profile payload is classified as valid by
\* _is_session_valid and as no error by _is_me_error; an answer with only a
\* status key is classified as invalid and as an error.
C27_ShapeClassification ==
    Classified =>
        /\ ProfilePayload(ClassifiedMe) => (SessionValid /\ ~MeError)
        /\ StatusOnly(ClassifiedMe) => (~SessionValid /\ MeError)


\* ---- properties of handle_send_message's validation ------------------------
\* the body is empty or only whitespace
BlankBody == \A i \in 1..Len(run.body) : run.body[i] = " "

\* neither a conversation id nor a recipient is given
NoTarget == run.conv = <<>> /\ run.recipients = <<>>

\* C28: handle_send_message with a blank body, or with no conversation id
\* and no recipient, ends with VALIDATION_ERROR at once: no upstream call is
\* made and get_client() is not called.
C28_ValidationBeforeAnyCall ==
    (run.op = "send" /\ (BlankBody \/ NoTarget)) =>
        /\ run.pc = "done"
        /\ run.resp = ErrorResponse("fixed_text", "VALIDATION_ERROR")
        /\ run.calls = <<>>
        /\ run.outs = <<>>
        /\ run.scan = NoScan

\* a whitespace-only body with a recipient, in a process where get_client()
\* would have raised
C28_Witness ==
    /\ run.op = "send"
    /\ run.body = <<" ">>
    /\ run.recipients # <<>>
    /\ GetClientOutcome = "raise"
    /\ run.resp = ErrorResponse("fixed_text", "VALIDATION_ERROR")


\* ---- the REPL wrapper: src/sessions/wrappers/python-repl.py ----------------
\* code blocks read from stdin in one run of the wrapper
MaxBlocks == 2

\* the <uuid8> of a boundary line
BlockIds == {"a1", "b2"}

\* what a block's code is: blank; an expression that gives a value, raises,
\* raises SyntaxError while it runs, or calls exit(); statements that finish,
\* raise, or rebind the global name `print`; text that compiles in no mode
BlockKinds ==
    {"empty", "expr", "expr_raises", "expr_syntaxerror", "expr_exit",
     "stmt", "stmt_raises", "stmt_rebind_print", "bad_syntax"}

\* block kinds that compile(code, '<session>', 'eval') accepts
Expressions == {"expr", "expr_raises", "expr_syntaxerror", "expr_exit"}

\* a protocol line, as the pieces it is made of
BoundaryLine(id) == <<"__CODEXEC_", "BOUNDARY", "_", id, "__">>
DoneLine(id) == <<"__CODEXEC_", "DONE", "_", id, "__">>

\* str.replace(old, new), piece by piece
Replace(line, old, new) == [i \in 1..Len(line) |-> IF line[i] = old THEN new ELSE line[i]]

\* what is written to stdout: a line with its origin
Out(what, line) == [what |-> what, line |-> line]

\* print(...): writes the line, or raises TypeError once `print` is rebound
Printed(r, what, line) == [r EXCEPT !.stdout = Append(@, Out(what, line))]

\* for line in sys.stdin: ... up to the boundary line, then up to the try block
ReadBlock ==
    /\ repl.pc = "read"
    /\ Len(repl.reads) < MaxBlocks
    /\ \E id \in BlockIds, k \in BlockKinds :
         LET boundary == Replace(BoundaryLine(id), "BOUNDARY", "DONE")
             r1 == [repl EXCEPT !.reads = Append(@, [id |-> id, kind |-> k]),
                                !.kind = k, !.boundary = boundary]
         IN repl' = IF k # "empty" THEN [r1 EXCEPT !.pc = "eval"]
                    ELSE IF repl.print_ok THEN Printed(r1, "done", boundary)
                    ELSE [r1 EXCEPT !.pc = "terminated", !.raised = "TypeError"]
    /\ UNCHANGED <<session, run, mcp>>

\* stdin is closed: boundary is None, break
ReadEof ==
    /\ repl.pc = "read"
    /\ repl' = [repl EXCEPT !.pc = "exited", !.eof = TRUE]
    /\ UNCHANGED <<session, run, mcp>>

\* result = eval(compile(code, '<session>', 'eval'), g); print(repr(result))
Eval ==
    /\ repl.pc = "eval"
    /\ LET started == [repl EXCEPT !.execs = Append(@, [block |-> Len(repl.reads),
                                                         mode |-> "eval"])]
       IN repl' =
            CASE repl.kind \notin Expressions -> [repl EXCEPT !.pc = "exec"]
              [] repl.kind = "expr" ->
                    IF repl.print_ok
                    THEN [Printed(started, "repr", <<"value">>) EXCEPT !.pc = "finally"]
                    ELSE [started EXCEPT !.pc = "except", !.raised = "TypeError"]
              [] repl.kind = "expr_raises" ->
                    [started EXCEPT !.pc = "except", !.raised = "Exception"]
              [] repl.kind = "expr_syntaxerror" -> [started EXCEPT !.pc = "exec"]
              [] repl.kind = "expr_exit" ->
                    [started EXCEPT !.pc = "finally", !.raised = "SystemExit"]
    /\ UNCHANGED <<session, run, mcp>>

\* except SyntaxError: exec(compile(code, '<session>', 'exec'), g)
Exec ==
    /\ repl.pc = "exec"
    /\ LET started == [repl EXCEPT !.execs = Append(@, [block |-> Len(repl.reads),
                                                         mode |-> "exec"])]
       IN repl' =
            CASE repl.kind = "bad_syntax" ->
                    [repl EXCEPT !.pc = "except", !.raised = "SyntaxError"]
              [] repl.kind = "stmt" -> [started EXCEPT !.pc = "finally"]
              [] repl.kind = "stmt_rebind_print" ->
                    [started EXCEPT !.pc = "finally", !.print_ok = FALSE]
              [] repl.kind = "stmt_raises" ->
                    [started EXCEPT !.pc = "except", !.raised = "Exception"]
              [] repl.kind = "expr_syntaxerror" ->
                    [started EXCEPT !.pc = "except", !.raised = "SyntaxError"]
    /\ UNCHANGED <<session, run, mcp>>

\* except Exception: traceback.print_exc()
Except ==
    /\ repl.pc = "except"
    /\ repl' = [repl EXCEPT !.pc = "finally", !.raised = "none"]
    /\ UNCHANGED <<session, run, mcp>>

\* finally: flush; print(boundary, flush=True); an exception that is no
\* Exception, or one raised here, leaves main()
Finally ==
    /\ repl.pc = "finally"
    /\ repl' = IF ~repl.print_ok
               THEN [repl EXCEPT !.pc = "terminated", !.raised = "TypeError"]
               ELSE [Printed(repl, "done", repl.boundary) EXCEPT
                        !.pc = IF repl.raised = "none" THEN "read" ELSE "terminated"]
    /\ UNCHANGED <<session, run, mcp>>

NextRepl ==
    \/ ReadBlock
    \/ ReadEof
    \/ Eval
    \/ Exec
    \/ Except
    \/ Finally

SpecRepl == InitUnconfigured /\ [][NextRepl]_vars

\* ---- properties of the REPL wrapper ----------------------------------------
\* the done lines written so far, in order
DoneLinesWritten == SelectSeq(repl.stdout, LAMBDA o : o.what = "done")

\* a block has been read and its done line is not due yet
BlockRunning == repl.pc \in {"eval", "exec", "except", "finally"}

\* the boundaries whose blocks are over
BlocksOver == IF BlockRunning THEN Len(repl.reads) - 1 ELSE Len(repl.reads)

\* C30: every boundary line read has exactly one done line with its id on
\* stdout once its block is over and none before, in the order of the
\* boundaries, whatever the block did; and the wrapper ends only when stdin
\* is closed.
C30_OneDoneLinePerBoundary ==
    /\ DoneLinesWritten = [i \in 1..BlocksOver |-> Out("done", DoneLine(repl.reads[i].id))]
    /\ repl.pc # "terminated"


\* ---- properties of the handlers' error messages ----------------------------
\* the message is str(e) of an exception raised by get_client() or upstream
UpstreamText(resp) == resp.msg = "exception_text"

\* C31: no error result of a tool handler carries the text of an upstream
\* exception as its message: the message is one of the handler's own texts.
C31_NoUpstreamTextInMessage ==
    (run.op \in HandlerOps /\ run.pc = "done" /\ ~run.resp.success)
        => ~UpstreamText(run.resp)


\* ---- properties of handle_send_message's recipients ------------------------
\* the send_message calls of the running operation
Sends == SelectSeq(run.calls, LAMBDA c : c.op = "send_message")

\* the calls made while resolving, in call order
ResolutionCalls == SelectSeq(run.calls, LAMBDA c : c.op # "send_message")

\* C32: handle_send_message resolves its references in list order and stops
\* at the first one that gives no id, and then send_message is not called;
\* send_message is called at most once, after every reference has given an
\* id, with these ids in the order of the references.
C32_AllOrNothing ==
    run.op = "send" =>
        /\ Len(run.outs) <= Len(run.recipients)
        /\ \A i, j \in DOMAIN ResolutionCalls :
              i < j => ResolutionCalls[i].who <= ResolutionCalls[j].who
        /\ \A c \in DOMAIN ResolutionCalls : ResolutionCalls[c].who \in 1..(Len(run.outs) + 1)
        /\ \A k \in DOMAIN run.outs :
              /\ _looks_like_urn_id(run.recipients[k]) => run.outs[k] = Found(run.recipients[k])
              /\ run.outs[k].kind # "id" =>
                    /\ k = Len(run.outs)
                    /\ run.pc = "done"
                    /\ Sends = <<>>
                    /\ ~run.resp.success
        /\ Len(Sends) <= 1
        /\ Sends # <<>> =>
              /\ run.calls[Len(run.calls)].op = "send_message"
              /\ Len(run.outs) = Len(run.recipients)
              /\ \A k \in DOMAIN run.outs : run.outs[k].kind = "id"
              /\ Sends[1].recipients = [k \in DOMAIN run.recipients |-> run.outs[k].id]
        /\ (run.pc = "done" /\ run.resp.success) => Len(Sends) = 1

\* a name resolved by search and a canonical id, sent in that order
C32_Witness ==
    /\ run.op = "send"
    /\ run.pc = "done"
    /\ run.resp.success
    /\ Len(run.recipients) = 2
    /\ ~_looks_like_urn_id(run.recipients[1])
    /\ _looks_like_urn_id(run.recipients[2])
    /\ Sends[1].recipients = <<<<"u1">>, run.recipients[2]>>


\* ---- properties of the resolver's use of search results --------------------
\* the call is a search answered with a list in which a candidate after the
\* first carries an id and the first carries none
LowerRankedId(c) ==
    /\ c.op = "search_people"
    /\ c.resp.kind = "list"
    /\ Len(c.resp.items) >= 2
    /\ c.resp.items[1].urn_id = <<>>
    /\ \E k \in 2..Len(c.resp.items) : c.resp.items[k].urn_id # <<>>

\* the number of the search strategy a call belongs to
StrategyNo(c) ==
    CASE Strategy(c) = "kw" -> 1
      [] Strategy(c) = "name" -> 2
      [] OTHER -> 3

\* C34: a search whose first candidate has no id counts as failed, also when
\* a lower-ranked candidate has one: the next strategy runs; and an id that
\* the resolver returns after a search is the first candidate's id.
C34_OnlyTopCandidate ==
    run.op = "resolve" =>
        \A i \in DOMAIN run.calls :
            (run.calls[i].op = "search_people" /\ run.calls[i].resp.kind = "list") =>
                /\ ~HasId(run.calls[i]) =>
                      IF i = Len(run.calls)
                      THEN run.pc = NextStrategy(StrategyNo(run.calls[i]), Reference)
                      ELSE Strategy(run.calls[i + 1]) # Strategy(run.calls[i])
                           /\ Strategy(run.calls[i + 1]) \in {"name", "broad", "conv"}
                /\ (i = Len(run.calls) /\ run.pc = "done") =>
                      /\ HasId(run.calls[i])
                      /\ Outcome = Found(run.calls[i].resp.items[1].urn_id)

\* the keyword search gave a lower-ranked id only, and the cascade went on
\* to its end
C34_Witness ==
    /\ ResolverReturned
    /\ Len(run.calls) >= 3
    /\ LowerRankedId(run.calls[1])
    /\ OrderOf(run.calls, 1) = FullOrder(Reference)
    /\ LowerRankedId(run.calls[Len(run.calls) - 1])
    /\ Outcome = NotFound


\* C33: for every /me answer that is a dict, _is_session_valid calls it valid
\* exactly when _is_me_error calls it no error, also for an answer with a
\* status key and a flat publicIdentifier.
C33_ClassifiersAgree ==
    Classified => (SessionValid <=> ~MeError)


\* ---- properties of the send outcome ----------------------------------------
\* C35: a send_message call ends the handler with exactly one of three
\* results: success when it returned a falsy value, LINKEDIN_SEND_FAILED when
\* it returned a truthy value, LINKEDIN_ERROR when it raised; a result that
\* says sent follows a send_message call that returned a falsy value.
C35_ThreeSendOutcomes ==
    run.op = "send" =>
        /\ \A i \in DOMAIN Sends :
              /\ run.pc = "done"
              /\ Sends[i].resp.kind = "false" => run.resp = SuccessResponse
              /\ Sends[i].resp.kind = "true" =>
                    (~run.resp.success /\ run.resp.code = "LINKEDIN_SEND_FAILED")
              /\ Sends[i].resp.kind = "raise" =>
                    (~run.resp.success /\ run.resp.code = "LINKEDIN_ERROR")
        /\ (run.pc = "done" /\ run.resp.success) =>
              (Len(Sends) = 1 /\ Sends[1].resp.kind = "false")

\* a reply to a conversation that the upstream rejected
C35_Witness ==
    /\ run.op = "send"
    /\ run.pc = "done"
    /\ run.conv # <<>>
    /\ Len(Sends) = 1
    /\ Sends[1].resp.kind = "true"
    /\ run.resp.code = "LINKEDIN_SEND_FAILED"


\* ---- properties of a failed get_client() call ------------------------------
\* this step ends a get_client() call of caller t with an exception: a call
\* in progress, or a call that is entered without a cached session and is
\* over at once
EndsInError(t) ==
    /\ result'[t].kind = "error"
    /\ pc'[t] = "idle"
    /\ \/ pc[t] # "idle"
       \/ calls' = calls + 1 /\ _client = None /\ \A u \in Callers : pc'[u] = "idle"

\* this step is the entry of a get_client() call that finds no cached session
\* and goes to credential selection: the cookie session is built and about to
\* be probed, or the password login is about to be made, or the credential
\* check raises
StartsFromSelection(t) ==
    /\ pc[t] = "idle"
    /\ IF UseCookies(env)
       THEN pc'[t] = "cookie_probe" /\ client'[t].source = "cookie"
       ELSE IF CredentialCheck(env) = "pw_login"
       THEN pc'[t] = "pw_login" /\ log'[t].logins = 0
       ELSE pc'[t] = "idle" /\ result'[t].kind = "error"

\* C36: a get_client() call that ends with an exception leaves _client None,
\* and a call entered while _client is None returns nothing at once: it
\* starts from credential selection.
C36_ErrorCachesNothing ==
    [][/\ \A t \in Callers : EndsInError(t) => (_client = None /\ _client' = None)
       /\ (calls' = calls + 1 /\ _client = None) =>
             /\ \E t \in Callers : StartsFromSelection(t)
             /\ \A t \in Callers : result'[t].kind = "session" => result'[t] = result[t]
             /\ _client' = None]_vars

\* a caller whose last call raised at the login has entered again and stands
\* before the login once more
C36_Witness ==
    \E t \in Callers :
        /\ result[t] = Raised("login_raised")
        /\ pc[t] = "pw_login"
        /\ calls >= 2
        /\ _client = None


\* ---- properties of what is cached ------------------------------------------
\* this step caches the cookie-built session s right after a valid probe of it
CachedAfterValidProbe(s) ==
    \E t \in Callers :
        /\ pc[t] = "cookie_probe"
        /\ client[t] = s
        /\ Len(log'[t].probes) = Len(log[t].probes) + 1
        /\ log'[t].probes[Len(log'[t].probes)].src = "cookie"
        /\ log'[t].probes[Len(log'[t].probes)].valid

\* C37: whatever is assigned to _client is None, a password-built session,
\* or a cookie-built session whose probe has just been valid; and a session
\* that get_client() returns is the cached one, so a cookie-built session
\* with an invalid probe is neither cached nor returned.
C37_CachedSessionKinds ==
    [][/\ (_client' # _client /\ _client' # None) =>
             \/ _client'.source = "password"
             \/ _client'.source = "cookie" /\ CachedAfterValidProbe(_client')
       /\ \A t \in Callers :
             (result'[t].kind = "session" /\ result'[t] # result[t])
                 => result'[t].s = _client']_vars

\* a call whose cookie-built session was probed invalid has cached and
\* returned the password-built session it made afterwards
C37_Witness ==
    \E t \in Callers :
        /\ pc[t] = "idle"
        /\ Len(log[t].builds) >= 2
        /\ log[t].builds[1].source = "cookie"
        /\ log[t].probes[1] = Probe("cookie", FALSE, log[t].probes[1].file)
        /\ _client.source = "password"
        /\ result[t] = Returned(_client, TRUE)
        /\ log[t].builds[1] \notin returned


\* ---- properties of the override's priority ---------------------------------
\* the handle the last probe gives: none for an error-shaped answer, else the
\* first populated handle field
ProbeHandle ==
    IF _is_me_error(LastProbe) THEN <<>> ELSE FirstPopulated(HandleFields(LastProbe))

\* C38: in _get_own_public_id a handle given by the last probe is the result,
\* whatever LINKEDIN_PUBLIC_ID holds; the override is the result exactly when
\* it is set and the last probe gives no handle, be the answer error-shaped
\* or profile-shaped without a handle; with neither the result is None.
C38_ProbeBeforeOverride ==
    (run.op \in {"own_public_id", "own_profile"} /\ ProbesOver /\ LastProbe.kind = "dict") =>
        /\ ProbeHandle # <<>> => run.outs[1] = Found(ProbeHandle)
        /\ (ProbeHandle = <<>> /\ OverrideSet) => run.outs[1] = Found(run.override)
        /\ (ProbeHandle = <<>> /\ ~OverrideSet) => run.outs[1] = NotFound
        /\ (OverrideSet /\ run.outs[1] = Found(run.override)) => ProbeHandle = <<>>

\* a profile-shaped answer without any handle, and the override is returned
C38_Witness ==
    /\ run.op = "own_public_id"
    /\ run.pc = "done"
    /\ Len(MeProbes) = 1
    /\ LastProbe.kind = "dict"
    /\ ~LastProbe.status
    /\ LastProbe.miniProfile.present = "dict"
    /\ FirstPopulated(HandleFields(LastProbe)) = <<>>
    /\ run.override = <<"h0">>
    /\ run.outs = <<Found(<<"h0">>)>>


\* ---- properties of the execution of a block --------------------------------
\* the executions started for block number b: code of the block began to run
ExecutionsOf(b) == {k \in DOMAIN repl.execs : repl.execs[k].block = b}

\* C39: the code of a block starts to run at most once, and exactly once for
\* a block that is over and whose text compiles; the fall-back to exec() does
\* not run a block whose evaluation has started.
C39_ExecutedExactlyOnce ==
    \A b \in DOMAIN repl.reads :
        /\ Cardinality(ExecutionsOf(b)) <= 1
        /\ (b <= BlocksOver /\ repl.reads[b].kind \notin {"empty", "bad_syntax"})
              => Cardinality(ExecutionsOf(b)) = 1


\* ---- properties of the name search's guard ---------------------------------
\* C40: the name search is issued only for a reference of two or more
\* whitespace-separated tokens; for a reference of fewer tokens that is no
\* id (one with a comma and no whitespace among them) a keyword search
\* without an id is followed by the broad search.
C40_NameSearchNeedsTwoTokens ==
    run.op = "resolve" =>
        /\ \A i \in DOMAIN run.calls : Strategy(run.calls[i]) = "name" => Len(Tokens) >= 2
        /\ (/\ Len(Tokens) < 2
            /\ run.calls # <<>>
            /\ run.calls[1].resp.kind = "list"
            /\ ~HasId(run.calls[1]))
              => /\ Strategy(run.calls[1]) = "kw"
                 /\ Len(run.calls) = 1 => run.pc = "s3"
                 /\ Len(run.calls) >= 2 => Strategy(run.calls[2]) = "broad"

\* a reference with a comma and no whitespace: keyword search, then broad search
C40_Witness ==
    /\ ResolverReturned
    /\ Has(Reference, ",")
    /\ ~Has(Reference, " ")
    /\ Len(run.calls) = 2
    /\ Strategy(run.calls[1]) = "kw" /\ IsEmpty(run.calls[1])
    /\ Strategy(run.calls[2]) = "broad" /\ HasId(run.calls[2])
    /\ Outcome = Found(<<"u1">>)

=============================================================================
